---- MODULE Spec2Model ----
(***************************************************************************)
(* hallucino: concurrent log retrieval (cmd/root.go retrieveLogs), the     *)
(* k8s log parser (k8s.RetrievePodLogs), the lock-guarded log store        *)
(*                                                                         *)
(* (storage.LogStorage), and the rule-based analyzer (analysis.LogAnalyzer).*)
(*                                                                         *)
(* Names are numbers: a pod or container name is a positive number and 0   *)
(* is the empty string "" of an unset flag.  A line of text is a sequence  *)
(* (of numbers where only its identity matters, of words where the         *)
(* analyzer reads it) and <<>> is the empty line.                          *)
(***************************************************************************)
EXTENDS Integers, Sequences, FiniteSets, TLC

\* ------------------------------------------------------------------ bounds
MaxPods == 2
MaxContainers == 2
MaxLines == 2
MaxEntries == 4
MaxFailures == 2
MaxTasks == 4
NumClients == 2
MaxCalls == 5
MaxBatch == 3
MaxLiveTasks == 2
MaxLiveEntries == 1

\* ------------------------------------------------------- program constants
LogChanCap == 100
ErrorChanCap == 10

\* One long run: a single container whose lines outnumber the log channel.
LongLines == LogChanCap + 1

VARIABLES
    \* flags (cmd/root.go package variables)
    namespace, pod, container,
    \* the cluster: pods in the namespace, containers per pod, lines per stream,
    \* and the raw text of each container's log stream
    clusterPods, clusterContainers, streamLines, streams,
    \* retrieveLogs: main goroutine
    mainPc, pods, podIdx, result,
    wg, logChan, errorChan, logChanCap, errorChanCap,
    \* level-1 (per pod) and level-2 (per pod and container) goroutines
    l1, l2,
    \* closer and fan-in consumer goroutines
    closerPc, consumerPc, totalLogs, reported, errClosedSeen,
    \* a Go runtime panic (send on closed channel, close of closed channel,
    \* negative WaitGroup counter)
    panicked,
    \* external calls issued so far
    calls,
    \* storage.LogStorage: ls.logs (slice header), the arrays behind slices, ls.mu
    logs, heap, mu,
    \* concurrent callers of the store: each caller's position and locals,
    \* the sequence the completed AddLog and Clear calls amount to, and the
    \* number of calls made
    cl, abs, ncalls,
    \* analysis.LogAnalyzer: the analyzer's fields, the position of
    \* NewLogAnalyzer / processLogs, the index of the range loop and the
    \* report generateDetailedReport returned
    la, laPc, laIdx, report,
    \* rootCmd.RunE: the flags given on the command line, the position of
    \* RunE, the error it returned and whether logStore has been created;
    \* GenerateInsights: the collaborator's response and what was returned
    args, runPc, runErr, logStore, gi

retrievalVars == <<namespace, pod, container, clusterPods, clusterContainers,
                   streamLines, streams, mainPc, pods, podIdx, result, wg, logChan,
                   errorChan, logChanCap, errorChanCap, l1, l2, closerPc,
                   consumerPc, totalLogs, reported, errClosedSeen, panicked,
                   calls>>
\* fixed during a run: the flags, the cluster and the channel capacities
cfgVars == <<namespace, pod, container, clusterPods, clusterContainers,
             streamLines, streams, logChanCap, errorChanCap>>
storeVars == <<logs, heap, mu>>
clientVars == <<cl, abs, ncalls>>
analysisVars == <<la, laPc, laIdx, report>>
runVars == <<args, runPc, runErr, logStore, gi>>
vars == <<retrievalVars, storeVars, clientVars, analysisVars, runVars>>

PodIds == 1..MaxPods
ClientIds == 1..NumClients
ContainerIds == 1..MaxContainers

\* ---------------------------------------------------------------- k8s.LogEntry
LogEntry(ns, p, c, line) ==
    [Namespace |-> ns, PodName |-> p, Container |-> c,
     LogContent |-> line, Timestamp |-> "now"]

ZeroEntry == LogEntry(0, 0, 0, <<>>)

\* ------------------------------------------------------ storage.LogStorage
\* []k8s.LogEntry{} : a slice of length 0 and capacity 0 with no array of its own.
EmptySlice == [arr |-> 0, len |-> 0, cap |-> 0]

\* The elements a slice header denotes.
Elems(h, s) == IF s.len = 0 THEN <<>> ELSE SubSeq(h[s.arr], 1, s.len)

\* Capacity append chooses when the array is full (Go doubles small slices).
GrowCap(cap) == IF cap = 0 THEN 1 ELSE 2 * cap

\* append(s, e): the heap and the slice header after appending e to s.
AppendHeap(h, s, e) ==
    IF s.len < s.cap
    THEN [h EXCEPT ![s.arr][s.len + 1] = e]
    ELSE Append(h, [i \in 1..GrowCap(s.cap) |->
                       IF i <= s.len THEN h[s.arr][i]
                       ELSE IF i = s.len + 1 THEN e ELSE ZeroEntry])

AppendSlice(h, s) ==
    IF s.len < s.cap
    THEN [s EXCEPT !.len = s.len + 1]
    ELSE [arr |-> Len(h) + 1, len |-> s.len + 1, cap |-> GrowCap(s.cap)]

\* What GetLogs returns right now.
StoreSeq == Elems(heap, logs)

\* ---------------------------------------------------- k8s.RetrievePodLogs
\* strings.Split(string(logBytes), "\n") of the stream of container c of pod
\* p: n lines of text, each followed by an empty line.
StreamLines(p, c, n) ==
    [i \in 1..(2 * n) |-> IF i % 2 = 1 THEN <<p, c, (i + 1) \div 2>> ELSE <<>>]

\* a parse loop that keeps the empty lines
ParseLogsKeepEmpty(ns, p, c, lines) ==
    [i \in 1..Len(lines) |-> LogEntry(ns, p, c, lines[i])]

\* the parse loop: one entry per non-empty line, in stream order
ParseLogs(ns, p, c, lines) ==
    LET kept == SelectSeq(lines, LAMBDA line : line # <<>>)
    IN  [i \in 1..Len(kept) |-> LogEntry(ns, p, c, kept[i])]

\* ------------------------------------------------------------------ errors
ListErr(p) == [kind |-> "containers", pod |-> p, container |-> 0]
FetchErr(p, c) == [kind |-> "logs", pod |-> p, container |-> c]

\* ---------------------------------------------------------------- channels
NewChan == [buf |-> <<>>, closed |-> FALSE]

\* a send proceeds when there is room; on a closed channel it panics
CanSend(ch, cap) == ch.closed \/ Len(ch.buf) < cap

\* a Wait that returns while one task is still counted
WaitReadyOffByOne(n) == n <= 1

\* sync.WaitGroup.Wait returns
WaitReady(n) == n = 0

\* failures of per-pod and per-container calls so far
NumFailures ==
    Cardinality({p \in PodIds : l1[p].list = "err"})
    + Cardinality({pc \in PodIds \X ContainerIds : l2[pc[1]][pc[2]].fetch = "err"})

IdleL1 == [pc |-> "idle", containers |-> <<>>, idx |-> 1, list |-> "none"]
IdleL2 == [pc |-> "idle", logs |-> <<>>, idx |-> 1, fetch |-> "none"]

NoCalls == [ListPods |-> 0,
            ListContainers |-> [p \in PodIds |-> 0],
            RetrievePodLogs |-> [p \in PodIds |-> [c \in ContainerIds |-> 0]]]

\* ------------------------------------------------------------------- Init
StoreInit ==
    /\ logs = EmptySlice
    /\ heap = <<>>
    /\ mu = [w |-> 0, r |-> 0]

IdleClient == [pc |-> "idle", arg |-> ZeroEntry, tmp |-> EmptySlice,
               ret |-> EmptySlice, got |-> <<>>, at |-> <<>>, out |-> <<>>]

ClientInit ==
    /\ cl = [c \in ClientIds |-> IdleClient]
    /\ abs = <<>>
    /\ ncalls = 0

\* NewLogAnalyzer: the analyzer before processLogs has run
NewAnalyzer(batch) ==
    [logs |-> batch, criticalEvents |-> <<>>, performanceIssues |-> <<>>,
     errorCount |-> 0, warningCount |-> 0]

\* no analyzer has been created yet
AnalyzerInit ==
    /\ la = NewAnalyzer(<<>>)
    /\ laPc = "idle"
    /\ laIdx = 1
    /\ report = <<>>

\* GenerateInsights has not been called
NoResponse == [fails |-> FALSE, choices |-> <<>>]
NoInsights == [pc |-> "idle", resp |-> NoResponse, out |-> "", err |-> "none"]

\* retrieveLogs or the analyzer on its own, not under RunE
RunOff ==
    /\ args = [namespace |-> namespace, pod |-> pod, container |-> container,
               printRaw |-> FALSE]
    /\ runPc = "off"
    /\ runErr = "none"
    /\ logStore = "created"
    /\ gi = NoInsights

\* every container's stream holds the same number of lines
UniformStreams(n) == [p \in PodIds |-> [c \in ContainerIds |-> StreamLines(p, c, n)]]

Scenario ==
    /\ namespace = 1
    /\ pod \in 0..1
    /\ container \in 0..1
    /\ container # 0 => pod # 0
    /\ \/ /\ clusterPods \in 0..MaxPods
          /\ clusterContainers \in 0..MaxContainers
          /\ streamLines \in 0..MaxLines
          /\ pod # 0 => clusterPods = 1
          /\ container # 0 => clusterContainers = 1
          /\ clusterPods * clusterContainers <= MaxTasks
          /\ clusterPods * clusterContainers * streamLines <= MaxEntries
       \/ /\ pod = 0 /\ container = 0
          /\ clusterPods = 1 /\ clusterContainers = 1
          /\ streamLines = LongLines
    /\ streams = UniformStreams(streamLines)

Init ==
    /\ Scenario
    /\ mainPc = "ListPods"
    /\ pods = <<>>
    /\ podIdx = 1
    /\ result = "none"
    /\ wg = 0
    /\ logChan = NewChan
    /\ errorChan = NewChan
    /\ logChanCap = LogChanCap
    /\ errorChanCap = ErrorChanCap
    /\ l1 = [p \in PodIds |-> IdleL1]
    /\ l2 = [p \in PodIds |-> [c \in ContainerIds |-> IdleL2]]
    /\ closerPc = "idle"
    /\ consumerPc = "idle"
    /\ totalLogs = 0
    /\ reported = <<>>
    /\ errClosedSeen = FALSE
    /\ panicked = FALSE
    /\ calls = NoCalls
    /\ StoreInit
    /\ ClientInit
    /\ AnalyzerInit
    /\ RunOff

\* ------------------------------------------------- retrieveLogs: main
\* pod == "": k8s.ListPods succeeds
ListPodsOk ==
    /\ ~panicked /\ mainPc = "ListPods" /\ pod = 0
    /\ pods' = [i \in 1..clusterPods |-> i]
    /\ calls' = [calls EXCEPT !.ListPods = @ + 1]
    /\ mainPc' = "spawn"
    /\ UNCHANGED <<cfgVars, podIdx, result, wg, logChan, errorChan, l1, l2,
                   closerPc, consumerPc, totalLogs, reported, errClosedSeen,
                   panicked, storeVars, clientVars, analysisVars, runVars>>

\* a pod-listing error that is recorded but does not end retrieveLogs
AfterListPodsErrGoOn == "spawn"

\* if err != nil { return fmt.Errorf("failed to list pods: %v", err) }
AfterListPodsErr == "done"

\* pod == "": k8s.ListPods fails, retrieveLogs returns the error
ListPodsErr ==
    /\ ~panicked /\ mainPc = "ListPods" /\ pod = 0
    /\ calls' = [calls EXCEPT !.ListPods = @ + 1]
    /\ mainPc' = AfterListPodsErr
    /\ result' = "err"
    /\ UNCHANGED <<cfgVars, pods, podIdx, wg, logChan, errorChan, l1, l2,
                   closerPc, consumerPc, totalLogs, reported, errClosedSeen,
                   panicked, storeVars, clientVars, analysisVars, runVars>>

\* pod != "": pods = []string{pod}
UsePodFlag ==
    /\ ~panicked /\ mainPc = "ListPods" /\ pod # 0
    /\ pods' = <<pod>>
    /\ mainPc' = "spawn"
    /\ UNCHANGED <<cfgVars, podIdx, result, wg, logChan, errorChan, l1, l2,
                   closerPc, consumerPc, totalLogs, reported, errClosedSeen,
                   panicked, calls, storeVars, clientVars, analysisVars, runVars>>

\* for _, podName := range pods { wg.Add(1); go func(podName) {...} }
SpawnPod ==
    /\ ~panicked /\ mainPc = "spawn" /\ podIdx <= Len(pods)
    /\ wg' = wg + 1
    /\ l1' = [l1 EXCEPT ![pods[podIdx]].pc = "start"]
    /\ podIdx' = podIdx + 1
    /\ UNCHANGED <<cfgVars, mainPc, pods, result, logChan, errorChan, l2,
                   closerPc, consumerPc, totalLogs, reported, errClosedSeen,
                   panicked, calls, storeVars, clientVars, analysisVars, runVars>>

\* go func() { wg.Wait(); close(logChan); close(errorChan) }()
GoCloser ==
    /\ ~panicked /\ mainPc = "spawn" /\ podIdx > Len(pods)
    /\ closerPc' = "Wait"
    /\ mainPc' = "goConsumer"
    /\ UNCHANGED <<cfgVars, pods, podIdx, result, wg, logChan, errorChan, l1,
                   l2, consumerPc, totalLogs, reported, errClosedSeen,
                   panicked, calls, storeVars, clientVars, analysisVars, runVars>>

\* logsProcessed.Add(1); go func() { defer logsProcessed.Done(); for {select} }()
GoConsumer ==
    /\ ~panicked /\ mainPc = "goConsumer"
    /\ consumerPc' = "select"
    /\ mainPc' = "Wait"
    /\ UNCHANGED <<cfgVars, pods, podIdx, result, wg, logChan, errorChan, l1,
                   l2, closerPc, totalLogs, reported, errClosedSeen,
                   panicked, calls, storeVars, clientVars, analysisVars, runVars>>

\* logsProcessed.Wait(); return nil
MainReturn ==
    /\ ~panicked /\ mainPc = "Wait" /\ consumerPc = "done"
    /\ mainPc' = "done"
    /\ result' = "nil"
    /\ UNCHANGED <<cfgVars, pods, podIdx, wg, logChan, errorChan, l1, l2,
                   closerPc, consumerPc, totalLogs, reported, errClosedSeen,
                   panicked, calls, storeVars, clientVars, analysisVars, runVars>>

\* ------------------------------------------- level-1 task: one per pod
\* container != "": containers = []string{container}; enter the loop
L1UseContainerFlag(p) ==
    /\ ~panicked /\ l1[p].pc = "start" /\ container # 0
    /\ l1' = [l1 EXCEPT ![p].containers = <<container>>, ![p].pc = "loop",
                        ![p].list = "skip"]
    /\ UNCHANGED <<cfgVars, mainPc, pods, podIdx, result, wg, logChan,
                   errorChan, l2, closerPc, consumerPc, totalLogs, reported,
                   errClosedSeen, panicked, calls, storeVars, clientVars, analysisVars, runVars>>

\* container == "": k8s.ListContainers succeeds
L1ListOk(p) ==
    /\ ~panicked /\ l1[p].pc = "start" /\ container = 0
    /\ calls' = [calls EXCEPT !.ListContainers[p] = @ + 1]
    /\ l1' = [l1 EXCEPT ![p].containers = [i \in 1..clusterContainers |-> i],
                        ![p].pc = IF clusterContainers = 0 THEN "exit" ELSE "loop",
                        ![p].list = "ok"]
    /\ UNCHANGED <<cfgVars, mainPc, pods, podIdx, result, wg, logChan,
                   errorChan, l2, closerPc, consumerPc, totalLogs, reported,
                   errClosedSeen, panicked, storeVars, clientVars, analysisVars, runVars>>

\* container == "": k8s.ListContainers fails
L1ListErr(p) ==
    /\ ~panicked /\ l1[p].pc = "start" /\ container = 0
    /\ NumFailures < MaxFailures
    /\ calls' = [calls EXCEPT !.ListContainers[p] = @ + 1]
    /\ l1' = [l1 EXCEPT ![p].pc = "senderr", ![p].list = "err"]
    /\ UNCHANGED <<cfgVars, mainPc, pods, podIdx, result, wg, logChan,
                   errorChan, l2, closerPc, consumerPc, totalLogs, reported,
                   errClosedSeen, panicked, storeVars, clientVars, analysisVars, runVars>>

\* errorChan <- fmt.Errorf("failed to list containers ..."); return
L1SendErr(p) ==
    /\ ~panicked /\ l1[p].pc = "senderr"
    /\ CanSend(errorChan, errorChanCap)
    /\ IF errorChan.closed
       THEN panicked' = TRUE /\ UNCHANGED <<errorChan, l1>>
       ELSE /\ errorChan' = [errorChan EXCEPT !.buf = Append(@, ListErr(p))]
            /\ l1' = [l1 EXCEPT ![p].pc = "exit"]
            /\ UNCHANGED panicked
    /\ UNCHANGED <<cfgVars, mainPc, pods, podIdx, result, wg, logChan, l2,
                   closerPc, consumerPc, totalLogs, reported, errClosedSeen,
                   calls, storeVars, clientVars, analysisVars, runVars>>

\* a level-1 task that spawns its level-2 tasks without wg.Add(1)
NestedAddMissing(n) == n

\* the counter after the nested wg.Add(1)
NestedAdd(n) == n + 1

\* for _, containerName := range containers { wg.Add(1); go func(...) {...} }
L1Spawn(p) ==
    /\ ~panicked /\ l1[p].pc = "loop" /\ l1[p].idx <= Len(l1[p].containers)
    /\ wg' = NestedAdd(wg)
    /\ l2' = [l2 EXCEPT ![p][l1[p].containers[l1[p].idx]].pc = "start"]
    /\ l1' = [l1 EXCEPT ![p].idx = @ + 1,
                        ![p].pc = IF l1[p].idx = Len(l1[p].containers)
                                  THEN "exit" ELSE "loop"]
    /\ UNCHANGED <<cfgVars, mainPc, pods, podIdx, result, logChan, errorChan,
                   closerPc, consumerPc, totalLogs, reported, errClosedSeen,
                   panicked, calls, storeVars, clientVars, analysisVars, runVars>>

\* defer wg.Done() of the level-1 task
L1Done(p) ==
    /\ ~panicked /\ l1[p].pc = "exit"
    /\ IF wg = 0
       THEN panicked' = TRUE /\ UNCHANGED <<wg, l1>>
       ELSE /\ wg' = wg - 1
            /\ l1' = [l1 EXCEPT ![p].pc = "done"]
            /\ UNCHANGED panicked
    /\ UNCHANGED <<cfgVars, mainPc, pods, podIdx, result, logChan, errorChan,
                   l2, closerPc, consumerPc, totalLogs, reported,
                   errClosedSeen, calls, storeVars, clientVars, analysisVars, runVars>>

\* ------------------------------ level-2 task: one per pod and container
\* k8s.RetrievePodLogs succeeds
L2FetchOk(p, c) ==
    /\ ~panicked /\ l2[p][c].pc = "start"
    /\ calls' = [calls EXCEPT !.RetrievePodLogs[p][c] = @ + 1]
    /\ LET got == ParseLogs(namespace, p, c, streams[p][c])
       IN  l2' = [l2 EXCEPT ![p][c].logs = got,
                            ![p][c].pc = IF got = <<>> THEN "exit" ELSE "send",
                            ![p][c].fetch = "ok"]
    /\ UNCHANGED <<cfgVars, mainPc, pods, podIdx, result, wg, logChan,
                   errorChan, l1, closerPc, consumerPc, totalLogs, reported,
                   errClosedSeen, panicked, storeVars, clientVars, analysisVars, runVars>>

\* a failed fetch that is attempted again
AfterFetchErrRetry == "start"

\* if err != nil after k8s.RetrievePodLogs: go on to report the error
AfterFetchErr == "senderr"

\* k8s.RetrievePodLogs fails (opening or reading the stream)
L2FetchErr(p, c) ==
    /\ ~panicked /\ l2[p][c].pc = "start"
    /\ NumFailures < MaxFailures
    /\ calls' = [calls EXCEPT !.RetrievePodLogs[p][c] = @ + 1]
    /\ l2' = [l2 EXCEPT ![p][c].pc = AfterFetchErr, ![p][c].fetch = "err"]
    /\ UNCHANGED <<cfgVars, mainPc, pods, podIdx, result, wg, logChan,
                   errorChan, l1, closerPc, consumerPc, totalLogs, reported,
                   errClosedSeen, panicked, storeVars, clientVars, analysisVars, runVars>>

\* errorChan <- fmt.Errorf("failed to retrieve logs ..."); return
L2SendErr(p, c) ==
    /\ ~panicked /\ l2[p][c].pc = "senderr"
    /\ CanSend(errorChan, errorChanCap)
    /\ IF errorChan.closed
       THEN panicked' = TRUE /\ UNCHANGED <<errorChan, l2>>
       ELSE /\ errorChan' = [errorChan EXCEPT !.buf = Append(@, FetchErr(p, c))]
            /\ l2' = [l2 EXCEPT ![p][c].pc = "exit"]
            /\ UNCHANGED panicked
    /\ UNCHANGED <<cfgVars, mainPc, pods, podIdx, result, wg, logChan, l1,
                   closerPc, consumerPc, totalLogs, reported, errClosedSeen,
                   calls, storeVars, clientVars, analysisVars, runVars>>

\* for _, log := range logs { logChan <- log }
L2Send(p, c) ==
    /\ ~panicked /\ l2[p][c].pc = "send"
    /\ CanSend(logChan, logChanCap)
    /\ IF logChan.closed
       THEN panicked' = TRUE /\ UNCHANGED <<logChan, l2>>
       ELSE /\ logChan' = [logChan EXCEPT
                             !.buf = Append(@, l2[p][c].logs[l2[p][c].idx])]
            /\ l2' = [l2 EXCEPT ![p][c].idx = @ + 1,
                                ![p][c].pc = IF l2[p][c].idx = Len(l2[p][c].logs)
                                             THEN "exit" ELSE "send"]
            /\ UNCHANGED panicked
    /\ UNCHANGED <<cfgVars, mainPc, pods, podIdx, result, wg, errorChan, l1,
                   closerPc, consumerPc, totalLogs, reported, errClosedSeen,
                   calls, storeVars, clientVars, analysisVars, runVars>>

\* defer wg.Done() of the level-2 task
L2Done(p, c) ==
    /\ ~panicked /\ l2[p][c].pc = "exit"
    /\ IF wg = 0
       THEN panicked' = TRUE /\ UNCHANGED <<wg, l2>>
       ELSE /\ wg' = wg - 1
            /\ l2' = [l2 EXCEPT ![p][c].pc = "done"]
            /\ UNCHANGED panicked
    /\ UNCHANGED <<cfgVars, mainPc, pods, podIdx, result, logChan, errorChan,
                   l1, closerPc, consumerPc, totalLogs, reported,
                   errClosedSeen, calls, storeVars, clientVars, analysisVars, runVars>>

\* ------------------------------------------------------ closer goroutine
\* wg.Wait()
CloserWait ==
    /\ ~panicked /\ closerPc = "Wait"
    /\ WaitReady(wg)
    /\ closerPc' = "closeLog"
    /\ UNCHANGED <<cfgVars, mainPc, pods, podIdx, result, wg, logChan,
                   errorChan, l1, l2, consumerPc, totalLogs, reported,
                   errClosedSeen, panicked, calls, storeVars, clientVars, analysisVars, runVars>>

\* close(logChan)
CloseLogChan ==
    /\ ~panicked /\ closerPc = "closeLog"
    /\ IF logChan.closed
       THEN panicked' = TRUE /\ UNCHANGED <<logChan, closerPc>>
       ELSE /\ logChan' = [logChan EXCEPT !.closed = TRUE]
            /\ closerPc' = "closeErr"
            /\ UNCHANGED panicked
    /\ UNCHANGED <<cfgVars, mainPc, pods, podIdx, result, wg, errorChan, l1,
                   l2, consumerPc, totalLogs, reported, errClosedSeen, calls,
                   storeVars, clientVars, analysisVars, runVars>>

\* close(errorChan)
CloseErrorChan ==
    /\ ~panicked /\ closerPc = "closeErr"
    /\ IF errorChan.closed
       THEN panicked' = TRUE /\ UNCHANGED <<errorChan, closerPc>>
       ELSE /\ errorChan' = [errorChan EXCEPT !.closed = TRUE]
            /\ closerPc' = "done"
            /\ UNCHANGED panicked
    /\ UNCHANGED <<cfgVars, mainPc, pods, podIdx, result, wg, logChan, l1,
                   l2, consumerPc, totalLogs, reported, errClosedSeen, calls,
                   storeVars, clientVars, analysisVars, runVars>>

\* ----------------------------------------------------- fan-in consumer
\* a consumer that returns as soon as no log is waiting
LogCaseReturnsOnEmpty(lc, ec) == lc.buf = <<>>

\* the select case on logChan that ends the consumer: !ok
LogCaseReturns(lc, ec) == lc.buf = <<>> /\ lc.closed

\* case log, ok := <-logChan with ok: logStore.AddLog(log); totalLogs++
ConsumerRecvLog ==
    /\ ~panicked /\ consumerPc = "select"
    /\ logChan.buf # <<>>
    /\ logChan' = [logChan EXCEPT !.buf = Tail(@)]
    /\ heap' = AppendHeap(heap, logs, Head(logChan.buf))
    /\ logs' = AppendSlice(heap, logs)
    /\ totalLogs' = totalLogs + 1
    /\ UNCHANGED <<cfgVars, mainPc, pods, podIdx, result, wg, errorChan, l1,
                   l2, closerPc, consumerPc, reported, errClosedSeen,
                   panicked, calls, mu, clientVars, analysisVars, runVars>>

\* case log, ok := <-logChan with !ok: return (defer logsProcessed.Done())
ConsumerLogClosed ==
    /\ ~panicked /\ consumerPc = "select"
    /\ LogCaseReturns(logChan, errorChan)
    /\ consumerPc' = "done"
    /\ UNCHANGED <<cfgVars, mainPc, pods, podIdx, result, wg, logChan,
                   errorChan, l1, l2, closerPc, totalLogs, reported,
                   errClosedSeen, panicked, calls, storeVars, clientVars, analysisVars, runVars>>

\* a consumer that stops at the first error
AfterRecvErrStop == "done"

\* where the consumer goes after printing an error: back to the select
AfterRecvErr == "select"

\* case err, ok := <-errorChan with ok: color.Red("Error: %v", err)
ConsumerRecvErr ==
    /\ ~panicked /\ consumerPc = "select"
    /\ errorChan.buf # <<>>
    /\ errorChan' = [errorChan EXCEPT !.buf = Tail(@)]
    /\ reported' = Append(reported, Head(errorChan.buf))
    /\ consumerPc' = AfterRecvErr
    /\ UNCHANGED <<cfgVars, mainPc, pods, podIdx, result, wg, logChan, l1,
                   l2, closerPc, totalLogs, errClosedSeen, panicked, calls,
                   storeVars, clientVars, analysisVars, runVars>>

\* case err, ok := <-errorChan with !ok: break leaves the select, not the loop
ConsumerErrClosed ==
    /\ ~panicked /\ consumerPc = "select"
    /\ errorChan.buf = <<>> /\ errorChan.closed
    /\ errClosedSeen' = TRUE
    /\ UNCHANGED <<cfgVars, mainPc, pods, podIdx, result, wg, logChan,
                   errorChan, l1, l2, closerPc, consumerPc, totalLogs,
                   reported, panicked, calls, storeVars, clientVars, analysisVars, runVars>>

\* ------------------------------------------------------------------ Next
Next ==
    \/ ListPodsOk
    \/ ListPodsErr
    \/ UsePodFlag
    \/ SpawnPod
    \/ GoCloser
    \/ GoConsumer
    \/ MainReturn
    \/ \E p \in PodIds : L1UseContainerFlag(p)
    \/ \E p \in PodIds : L1ListOk(p)
    \/ \E p \in PodIds : L1ListErr(p)
    \/ \E p \in PodIds : L1SendErr(p)
    \/ \E p \in PodIds : L1Spawn(p)
    \/ \E p \in PodIds : L1Done(p)
    \/ \E p \in PodIds, c \in ContainerIds : L2FetchOk(p, c)
    \/ \E p \in PodIds, c \in ContainerIds : L2FetchErr(p, c)
    \/ \E p \in PodIds, c \in ContainerIds : L2SendErr(p, c)
    \/ \E p \in PodIds, c \in ContainerIds : L2Send(p, c)
    \/ \E p \in PodIds, c \in ContainerIds : L2Done(p, c)
    \/ CloserWait
    \/ CloseLogChan
    \/ CloseErrorChan
    \/ ConsumerRecvLog
    \/ ConsumerLogClosed
    \/ ConsumerRecvErr
    \/ ConsumerErrClosed

Spec == Init /\ [][Next]_vars

\* ============================================ storage.LogStorage, called
\* by concurrent callers.  A caller that has to wait for ls.mu is idle until
\* it gets the lock; the deferred Unlock / RUnlock is the call's return.
\* abs is the sequence the calls that have returned amount to: AddLog(e)
\* appends e to it and Clear empties it when the call returns.

\* a write lock that does not keep a second writer out
LockFreeIgnoresWriter(m) == m.r = 0

\* ls.mu.Lock() can be taken: no writer and no reader holds ls.mu
LockFree(m) == m.w = 0 /\ m.r = 0

\* a read lock that does not wait for the writer
RLockFreeIgnoresWriter(m) == TRUE

\* ls.mu.RLock() can be taken: no writer holds ls.mu
RLockFree(m) == m.w = 0

\* the entry of the k-th call
CallEntry(k) == LogEntry(1, 1, 1, <<k>>)

\* AddLog: ls.mu.Lock()
AddLogLock(c) ==
    /\ cl[c].pc = "idle" /\ ncalls < MaxCalls
    /\ LockFree(mu)
    /\ mu' = [mu EXCEPT !.w = @ + 1]
    /\ ncalls' = ncalls + 1
    /\ cl' = [cl EXCEPT ![c].pc = "AddLog.load", ![c].arg = CallEntry(ncalls + 1)]
    /\ UNCHANGED <<retrievalVars, analysisVars, runVars, logs, heap, abs>>

\* AddLog: the ls.logs read by append(ls.logs, log)
AddLogLoad(c) ==
    /\ cl[c].pc = "AddLog.load"
    /\ cl' = [cl EXCEPT ![c].pc = "AddLog.store", ![c].tmp = logs]
    /\ UNCHANGED <<retrievalVars, analysisVars, runVars, storeVars, abs, ncalls>>

\* AddLog: ls.logs = append(..., log)
AddLogStore(c) ==
    /\ cl[c].pc = "AddLog.store"
    /\ heap' = AppendHeap(heap, cl[c].tmp, cl[c].arg)
    /\ logs' = AppendSlice(heap, cl[c].tmp)
    /\ cl' = [cl EXCEPT ![c].pc = "AddLog.Unlock"]
    /\ UNCHANGED <<retrievalVars, analysisVars, runVars, mu, abs, ncalls>>

\* AddLog: defer ls.mu.Unlock(), return
AddLogUnlock(c) ==
    /\ cl[c].pc = "AddLog.Unlock"
    /\ mu' = [mu EXCEPT !.w = @ - 1]
    /\ abs' = Append(abs, cl[c].arg)
    /\ cl' = [cl EXCEPT ![c].pc = "idle"]
    /\ UNCHANGED <<retrievalVars, analysisVars, runVars, logs, heap, ncalls>>

\* GetLogs: ls.mu.RLock()
GetLogsRLock(c) ==
    /\ cl[c].pc = "idle" /\ ncalls < MaxCalls
    /\ RLockFree(mu)
    /\ mu' = [mu EXCEPT !.r = @ + 1]
    /\ ncalls' = ncalls + 1
    /\ cl' = [cl EXCEPT ![c].pc = "GetLogs.read"]
    /\ UNCHANGED <<retrievalVars, analysisVars, runVars, logs, heap, abs>>

\* GetLogs: return ls.logs (the slice header, not a copy of the array)
GetLogsRead(c) ==
    /\ cl[c].pc = "GetLogs.read"
    /\ cl' = [cl EXCEPT ![c].pc = "GetLogs.RUnlock", ![c].ret = logs,
                        ![c].got = Elems(heap, logs), ![c].at = abs]
    /\ UNCHANGED <<retrievalVars, analysisVars, runVars, storeVars, abs, ncalls>>

\* GetLogs: defer ls.mu.RUnlock(), return
GetLogsRUnlock(c) ==
    /\ cl[c].pc = "GetLogs.RUnlock"
    /\ mu' = [mu EXCEPT !.r = @ - 1]
    /\ cl' = [cl EXCEPT ![c].pc = "idle"]
    /\ UNCHANGED <<retrievalVars, analysisVars, runVars, logs, heap, abs, ncalls>>

\* Clear: ls.mu.Lock()
ClearLock(c) ==
    /\ cl[c].pc = "idle" /\ ncalls < MaxCalls
    /\ LockFree(mu)
    /\ mu' = [mu EXCEPT !.w = @ + 1]
    /\ ncalls' = ncalls + 1
    /\ cl' = [cl EXCEPT ![c].pc = "Clear.store"]
    /\ UNCHANGED <<retrievalVars, analysisVars, runVars, logs, heap, abs>>

\* a Clear that truncates the slice and keeps its array: ls.logs = ls.logs[:0]
ClearedSliceReuse(s) == [s EXCEPT !.len = 0]

\* a Clear that drops only the last entry
ClearedSliceDropLast(s) == IF s.len = 0 THEN s ELSE [s EXCEPT !.len = @ - 1]

\* the slice Clear assigns: a new empty slice, whatever ls.logs was
ClearedSlice(s) == EmptySlice

\* Clear: ls.logs = []k8s.LogEntry{}
ClearStore(c) ==
    /\ cl[c].pc = "Clear.store"
    /\ logs' = ClearedSlice(logs)
    /\ cl' = [cl EXCEPT ![c].pc = "Clear.Unlock"]
    /\ UNCHANGED <<retrievalVars, analysisVars, runVars, heap, mu, abs, ncalls>>

\* Clear: defer ls.mu.Unlock(), return
ClearUnlock(c) ==
    /\ cl[c].pc = "Clear.Unlock"
    /\ mu' = [mu EXCEPT !.w = @ - 1]
    /\ abs' = <<>>
    /\ cl' = [cl EXCEPT ![c].pc = "idle"]
    /\ UNCHANGED <<retrievalVars, analysisVars, runVars, logs, heap, ncalls>>

\* fmt.Printf("%s | %s | %s | %s\n", Timestamp, PodName, Container, LogContent)
PrintedLine(e) == <<e.Timestamp, e.PodName, e.Container, e.LogContent>>

\* PrettyPrintLogs: ls.mu.RLock()
PrettyPrintRLock(c) ==
    /\ cl[c].pc = "idle" /\ ncalls < MaxCalls
    /\ RLockFree(mu)
    /\ mu' = [mu EXCEPT !.r = @ + 1]
    /\ ncalls' = ncalls + 1
    /\ cl' = [cl EXCEPT ![c].pc = "Print.range"]
    /\ UNCHANGED <<retrievalVars, analysisVars, runVars, logs, heap, abs>>

\* PrettyPrintLogs: for _, log := range ls.logs { fmt.Printf(...) }
PrettyPrintRange(c) ==
    /\ cl[c].pc = "Print.range"
    /\ cl' = [cl EXCEPT ![c].pc = "Print.RUnlock",
                        ![c].out = [i \in 1..logs.len |->
                                       PrintedLine(Elems(heap, logs)[i])]]
    /\ UNCHANGED <<retrievalVars, analysisVars, runVars, storeVars, abs, ncalls>>

\* PrettyPrintLogs: defer ls.mu.RUnlock(), return
PrettyPrintRUnlock(c) ==
    /\ cl[c].pc = "Print.RUnlock"
    /\ mu' = [mu EXCEPT !.r = @ - 1]
    /\ cl' = [cl EXCEPT ![c].pc = "idle"]
    /\ UNCHANGED <<retrievalVars, analysisVars, runVars, logs, heap, abs, ncalls>>

\* a fresh store (NewLogStorage) and no retrieval running
StoreSpecInit ==
    /\ namespace = 1 /\ pod = 0 /\ container = 0
    /\ clusterPods = 0 /\ clusterContainers = 0 /\ streamLines = 0
    /\ streams = UniformStreams(streamLines)
    /\ mainPc = "off"
    /\ pods = <<>>
    /\ podIdx = 1
    /\ result = "none"
    /\ wg = 0
    /\ logChan = NewChan
    /\ errorChan = NewChan
    /\ logChanCap = LogChanCap
    /\ errorChanCap = ErrorChanCap
    /\ l1 = [p \in PodIds |-> IdleL1]
    /\ l2 = [p \in PodIds |-> [c \in ContainerIds |-> IdleL2]]
    /\ closerPc = "idle"
    /\ consumerPc = "idle"
    /\ totalLogs = 0
    /\ reported = <<>>
    /\ errClosedSeen = FALSE
    /\ panicked = FALSE
    /\ calls = NoCalls
    /\ StoreInit
    /\ ClientInit
    /\ AnalyzerInit
    /\ RunOff

StoreNext ==
    \/ \E c \in ClientIds : AddLogLock(c)
    \/ \E c \in ClientIds : AddLogLoad(c)
    \/ \E c \in ClientIds : AddLogStore(c)
    \/ \E c \in ClientIds : AddLogUnlock(c)
    \/ \E c \in ClientIds : GetLogsRLock(c)
    \/ \E c \in ClientIds : GetLogsRead(c)
    \/ \E c \in ClientIds : GetLogsRUnlock(c)
    \/ \E c \in ClientIds : ClearLock(c)
    \/ \E c \in ClientIds : ClearStore(c)
    \/ \E c \in ClientIds : ClearUnlock(c)
    \/ \E c \in ClientIds : PrettyPrintRLock(c)
    \/ \E c \in ClientIds : PrettyPrintRange(c)
    \/ \E c \in ClientIds : PrettyPrintRUnlock(c)

StoreSpec == StoreSpecInit /\ [][StoreNext]_vars

\* ------------------------------------------------ analysis.LogAnalyzer
\* A line of log text is a sequence of words separated by single spaces.
\* The literals of the four patterns that occur in a word, ignoring case
\* ((?i)): "warning" contains both warning and warn, "restarted" contains
\* restart, "ERROR" contains error.
Fragments(w) ==
    CASE w \in {"ERROR", "error:"} -> {"error"}
      [] w = "fatal" -> {"fatal"}
      [] w = "panic:" -> {"panic"}
      [] w = "critical" -> {"critical"}
      [] w = "WARN" -> {"warn"}
      [] w = "warning" -> {"warning", "warn"}
      [] w = "timeout" -> {"timeout"}
      [] w = "latency" -> {"latency"}
      [] w = "slow" -> {"slow"}
      [] w = "high" -> {"high"}
      [] w = "load" -> {"load"}
      [] w = "pod" -> {"pod"}
      [] w = "container" -> {"container"}
      [] w \in {"restart", "restarted", "Restart"} -> {"restart"}
      [] OTHER -> {}

\* The alternatives of a pattern: a literal, two literals joined by one
\* space ("high load"), and a literal followed anywhere later by another
\* (container.*restart).
Lit(a) == [kind |-> "lit", a |-> a, b |-> a]
Adjacent(a, b) == [kind |-> "adjacent", a |-> a, b |-> b]
Later(a, b) == [kind |-> "later", a |-> a, b |-> b]

\* (?i)error|critical|fatal|panic
errorRegex == {Lit("error"), Lit("critical"), Lit("fatal"), Lit("panic")}
\* (?i)warning|warn
warningRegex == {Lit("warning"), Lit("warn")}
\* (?i)timeout|latency|slow|high load
performanceRegex == {Lit("timeout"), Lit("latency"), Lit("slow"),
                     Adjacent("high", "load")}
\* (?i)pod|container.*restart : alternation binds loosest, so the
\* alternatives are  pod  and  container.*restart
restartRegex == {Lit("pod"), Later("container", "restart")}

\* one alternative occurs somewhere in the text
MatchAlt(alt, text) ==
    CASE alt.kind = "lit" ->
            \E i \in 1..Len(text) : alt.a \in Fragments(text[i])
      [] alt.kind = "adjacent" ->
            \E i \in 1..(Len(text) - 1) :
                alt.a \in Fragments(text[i]) /\ alt.b \in Fragments(text[i + 1])
      [] alt.kind = "later" ->
            \E i \in 1..Len(text) : \E j \in (i + 1)..Len(text) :
                alt.a \in Fragments(text[i]) /\ alt.b \in Fragments(text[j])

\* regexp.MatchString: the pattern matches a substring of the text
MatchString(re, text) == \E alt \in re : MatchAlt(alt, text)

\* "Restart Event: "
RestartPrefixMissing == <<>>

RestartPrefix == <<"Restart", "Event:">>

\* append(list, log) put at the front
AddEventInFront(list, log) == <<log>> \o list

\* append(list, log)
AddEvent(list, log) == Append(list, log)

\* an error rule that lists the entry without counting it
ErrorRuleNoCount(a, log) == [a EXCEPT !.criticalEvents = AddEvent(@, log)]

\* case errorRegex: la.errorCount++ ; append to la.criticalEvents
ErrorRule(a, log) ==
    [a EXCEPT !.errorCount = @ + 1,
              !.criticalEvents = AddEvent(@, log)]

\* a warning rule that also lists the entry
WarningRuleListsEntry(a, log) ==
    [a EXCEPT !.warningCount = @ + 1,
              !.criticalEvents = AddEvent(@, log)]

\* case warningRegex: la.warningCount++
WarningRule(a, log) == [a EXCEPT !.warningCount = @ + 1]

\* a performance rule that lists the entry in both lists
PerformanceRuleBothLists(a, log) ==
    [a EXCEPT !.performanceIssues = AddEvent(@, log),
              !.criticalEvents = AddEvent(@, log)]

\* case performanceRegex: append to la.performanceIssues
PerformanceRule(a, log) == [a EXCEPT !.performanceIssues = AddEvent(@, log)]

\* case restartRegex: the parameter log is analyzeLine's own copy of the
\* entry, so the assignment to log.LogContent changes only what is appended
RestartRule(a, log) ==
    [a EXCEPT !.criticalEvents =
        AddEvent(@, [log EXCEPT !.LogContent = RestartPrefix \o @])]

\* the switch with the warning case tested before the error case
AnalyzeLineWarningFirst(a, log) ==
    IF MatchString(warningRegex, log.LogContent) THEN WarningRule(a, log)
    ELSE IF MatchString(errorRegex, log.LogContent) THEN ErrorRule(a, log)
    ELSE IF MatchString(performanceRegex, log.LogContent) THEN PerformanceRule(a, log)
    ELSE IF MatchString(restartRegex, log.LogContent) THEN RestartRule(a, log)
    ELSE a

\* analyzeLine: the first case of the switch that matches runs, alone
AnalyzeLine(a, log) ==
    IF MatchString(errorRegex, log.LogContent) THEN ErrorRule(a, log)
    ELSE IF MatchString(warningRegex, log.LogContent) THEN WarningRule(a, log)
    ELSE IF MatchString(performanceRegex, log.LogContent) THEN PerformanceRule(a, log)
    ELSE IF MatchString(restartRegex, log.LogContent) THEN RestartRule(a, log)
    ELSE a

\* analyzeKubernetsLogs, reached when retrieveLogs returned nil:
\* logs := logStorage.GetLogs() ; NewLogAnalyzer(logs) up to la.processLogs()
AnalyzeKubernetsLogs ==
    /\ mainPc = "done" /\ result = "nil" /\ laPc = "idle"
    /\ runPc \in {"off", "analyzeKubernetsLogs"}
    /\ RLockFree(mu)
    /\ la' = NewAnalyzer(StoreSeq)
    /\ laIdx' = 1
    /\ laPc' = "processLogs"
    /\ UNCHANGED <<retrievalVars, runVars, storeVars, clientVars, report>>

\* processLogs: one iteration of  for _, log := range la.logs
ProcessLogsStep ==
    /\ laPc = "processLogs" /\ laIdx <= Len(la.logs)
    /\ la' = AnalyzeLine(la, la.logs[laIdx])
    /\ laIdx' = laIdx + 1
    /\ UNCHANGED <<retrievalVars, runVars, storeVars, clientVars, laPc, report>>

\* processLogs: the range is exhausted and NewLogAnalyzer returns la
ProcessLogsDone ==
    /\ laPc = "processLogs" /\ laIdx > Len(la.logs)
    /\ laPc' = "ready"
    /\ UNCHANGED <<retrievalVars, runVars, storeVars, clientVars, la, laIdx, report>>

\* what one line of a section prints of an event: `%s | %s | %s`: %s
EventFields(e) ==
    [Timestamp |-> e.Timestamp, PodName |-> e.PodName,
     Container |-> e.Container, LogContent |-> e.LogContent]

\* the lines of the report: fixed text, a labelled number, an event
TextLine(text) == [kind |-> text, n |-> 0, event |-> EventFields(ZeroEntry)]
CountLine(label, n) == [kind |-> label, n |-> n, event |-> EventFields(ZeroEntry)]
EventLine(e) == [kind |-> "event", n |-> 0, event |-> EventFields(e)]

\* a section that prints its placeholder after the events as well
SectionAlwaysPlaceholder(list, placeholder) ==
    [i \in 1..Len(list) |-> EventLine(list[i])] \o <<TextLine(placeholder)>>

\* the body of a section: one line per event, or the placeholder
Section(list, placeholder) ==
    IF Len(list) > 0
    THEN [i \in 1..Len(list) |-> EventLine(list[i])]
    ELSE <<TextLine(placeholder)>>

\* generateDetailedReport
DetailedReport(a) ==
    <<TextLine("### Kubernetes Log Analysis Report"),
      CountLine("Total Log Entries", Len(a.logs)),
      CountLine("Error Count", a.errorCount),
      CountLine("Warning Count", a.warningCount),
      TextLine("#### Critical Events")>>
    \o Section(a.criticalEvents, "- No critical events detected.")
    \o <<TextLine("#### Performance Issues")>>
    \o Section(a.performanceIssues, "- No significant performance issues detected.")

\* GenerateInsights: detailedReport := logAnalyzer.generateDetailedReport()
GenerateDetailedReport ==
    /\ laPc = "ready"
    /\ report' = DetailedReport(la)
    /\ laPc' = "reported"
    /\ UNCHANGED <<retrievalVars, runVars, storeVars, clientVars, la, laIdx>>

\* ------------------------------------------ OpenAIAnalyzer.GenerateInsights
\* A choice of the response: Message may be nil, and Message.Content (a
\* *string) may be nil or point to a text.
Choice(message, content, text) ==
    [message |-> message, content |-> content, text |-> text]

\* What GetChatCompletions can come back with: an error (a failed call or
\* the 30 s deadline), or a response with any list of choices.
Responses ==
    {[fails |-> TRUE, choices |-> <<>>]}
    \cup {[fails |-> FALSE, choices |-> cs] :
            cs \in {<<>>,
                    <<Choice(FALSE, FALSE, "")>>,
                    <<Choice(TRUE, FALSE, "")>>,
                    <<Choice(TRUE, TRUE, "")>>,
                    <<Choice(TRUE, TRUE, "insights")>>,
                    <<Choice(TRUE, TRUE, "insights"), Choice(TRUE, TRUE, "more")>>,
                    <<Choice(FALSE, FALSE, ""), Choice(TRUE, TRUE, "more")>>}}

\* GenerateInsights from the return of GetChatCompletions on: the error, or
\* *resp.Choices[0].Message.Content (a nil Content makes the dereference
\* panic), or "no insights generated"
InsightsResult(resp) ==
    IF resp.fails
    THEN [pc |-> "returned", resp |-> resp, out |-> "",
          err |-> "failed to get chat completions"]
    ELSE IF Len(resp.choices) > 0 /\ resp.choices[1].message
    THEN IF resp.choices[1].content
         THEN [pc |-> "returned", resp |-> resp,
               out |-> resp.choices[1].text, err |-> "nil"]
         ELSE [pc |-> "panicked", resp |-> resp, out |-> "", err |-> "none"]
    ELSE [pc |-> "returned", resp |-> resp, out |-> "",
          err |-> "no insights generated"]

\* analyzeKubernetsLogs: NewOpenAIAnalyzer rejects the configuration
NewOpenAIAnalyzerErr ==
    /\ laPc = "ready"
    /\ laPc' = "failed"
    /\ gi' = [gi EXCEPT !.err = "missing required OpenAI configuration"]
    /\ UNCHANGED <<retrievalVars, storeVars, clientVars, la, laIdx, report,
                   args, runPc, runErr, logStore>>

\* GenerateInsights after the report: GetChatCompletions and the return
GetChatCompletions ==
    /\ laPc = "reported"
    /\ \E resp \in Responses : gi' = InsightsResult(resp)
    /\ laPc' = "insights"
    /\ UNCHANGED <<retrievalVars, storeVars, clientVars, la, laIdx, report,
                   args, runPc, runErr, logStore>>

\* ------------------------------------------- the analyzer on its own
\* Lines of log text the analyzer is run on.
SampleLines ==
    { <<"INFO", "start">>,
      <<"ERROR", "timeout", "reaching", "db">>,
      <<"WARN", "disk", "nearly", "full">>,
      <<"pod", "restarted", "unexpectedly">>,
      <<"request", "latency", "high">>,
      <<"pod", "scheduled">>,
      <<"container", "restart", "warning">>,
      <<"slow", "warning">>,
      <<"fatal", "error:", "pod", "restart">>,
      <<"container", "will", "restart">>,
      <<"restart", "of", "container">>,
      <<"high", "load", "detected">>,
      <<"panic:", "critical", "warning", "slow", "pod">> }

\* The batches of at most MaxBatch lines; line i of a batch comes from pod i.
Batches == UNION {[1..n -> SampleLines] : n \in 0..MaxBatch}
BatchEntries(b) == [i \in 1..Len(b) |-> LogEntry(1, i, 1, b[i])]

\* the store after AddLog of each entry of the sequence, in order
RECURSIVE StoredHeap(_), StoredSlice(_)
StoredHeap(es) ==
    IF es = <<>> THEN <<>>
    ELSE LET front == SubSeq(es, 1, Len(es) - 1)
         IN  AppendHeap(StoredHeap(front), StoredSlice(front), es[Len(es)])
StoredSlice(es) ==
    IF es = <<>> THEN EmptySlice
    ELSE LET front == SubSeq(es, 1, Len(es) - 1)
         IN  AppendSlice(StoredHeap(front), StoredSlice(front))

\* retrieveLogs has returned nil and left a batch in the store
AnalysisSpecInit ==
    /\ namespace = 1 /\ pod = 0 /\ container = 0
    /\ clusterPods = 0 /\ clusterContainers = 0 /\ streamLines = 0
    /\ streams = UniformStreams(streamLines)
    /\ mainPc = "done"
    /\ pods = <<>>
    /\ podIdx = 1
    /\ result = "nil"
    /\ wg = 0
    /\ logChan = [buf |-> <<>>, closed |-> TRUE]
    /\ errorChan = [buf |-> <<>>, closed |-> TRUE]
    /\ logChanCap = LogChanCap
    /\ errorChanCap = ErrorChanCap
    /\ l1 = [p \in PodIds |-> IdleL1]
    /\ l2 = [p \in PodIds |-> [c \in ContainerIds |-> IdleL2]]
    /\ closerPc = "done"
    /\ consumerPc = "done"
    /\ \E b \in Batches :
          /\ heap = StoredHeap(BatchEntries(b))
          /\ logs = StoredSlice(BatchEntries(b))
          /\ totalLogs = Len(b)
    /\ mu = [w |-> 0, r |-> 0]
    /\ reported = <<>>
    /\ errClosedSeen = FALSE
    /\ panicked = FALSE
    /\ calls = NoCalls
    /\ ClientInit
    /\ AnalyzerInit
    /\ RunOff

AnalysisNext ==
    \/ AnalyzeKubernetsLogs
    \/ ProcessLogsStep
    \/ ProcessLogsDone
    \/ GenerateDetailedReport
    \/ NewOpenAIAnalyzerErr
    \/ GetChatCompletions

AnalysisSpec == AnalysisSpecInit /\ [][AnalysisNext]_vars

\* ------------------------------------- retrieval followed by analysis
\* One pod with two containers.  Every line of a stream ends in a newline,
\* so strings.Split yields one empty string after the last line.
ExampleStreams ==
    [p \in PodIds |-> [c \in ContainerIds |->
        IF p = 1 /\ c = 1
        THEN << <<"INFO", "start">>,
                <<"ERROR", "timeout", "reaching", "db">>, <<>> >>
        ELSE IF p = 1 /\ c = 2
        THEN << <<"WARN", "disk", "nearly", "full">>, <<>> >>
        ELSE << <<>> >>]]

\* streams whose containers both feed both lists
MixedStreams ==
    [p \in PodIds |-> [c \in ContainerIds |->
        IF p = 1 /\ c = 1
        THEN << <<"fatal", "error:", "pod", "restart">>,
                <<"request", "latency", "high">>, <<>> >>
        ELSE IF p = 1 /\ c = 2
        THEN << <<"pod", "restarted", "unexpectedly">>,
                <<"high", "load", "detected">>, <<>> >>
        ELSE << <<>> >>]]

PipeInit ==
    /\ namespace = 1
    /\ pod \in 0..1
    /\ container \in 0..1
    /\ container # 0 => pod # 0
    /\ clusterPods = 1 /\ clusterContainers = 2 /\ streamLines = 0
    /\ streams \in {ExampleStreams, MixedStreams}
    /\ mainPc = "ListPods"
    /\ pods = <<>>
    /\ podIdx = 1
    /\ result = "none"
    /\ wg = 0
    /\ logChan = NewChan
    /\ errorChan = NewChan
    /\ logChanCap = LogChanCap
    /\ errorChanCap = ErrorChanCap
    /\ l1 = [p \in PodIds |-> IdleL1]
    /\ l2 = [p \in PodIds |-> [c \in ContainerIds |-> IdleL2]]
    /\ closerPc = "idle"
    /\ consumerPc = "idle"
    /\ totalLogs = 0
    /\ reported = <<>>
    /\ errClosedSeen = FALSE
    /\ panicked = FALSE
    /\ calls = NoCalls
    /\ StoreInit
    /\ ClientInit
    /\ AnalyzerInit
    /\ RunOff

\* RunE: retrieveLogs, then analyzeKubernetsLogs
PipeNext == Next \/ AnalysisNext

PipeSpec == PipeInit /\ [][PipeNext]_vars

\* --------------------------------------------------------- rootCmd.RunE
\* init: every string flag is registered with the default value ""
FlagDefault == 0

\* the package variable after cobra has parsed the command line
FlagValue(given) == IF given = 0 THEN FlagDefault ELSE given

\* a validation without the case "container without pod or namespace"
ValidateWithoutContainerCase(ns, p, c) ==
    IF ns = 0 /\ p = 0 /\ c = 0 THEN "no parameters specified"
    ELSE IF p # 0 /\ ns = 0 THEN "pod must be specified with a namespace"
    ELSE "nil"

\* validateInputCombinations: the error returned, or "nil"
ValidateInputCombinations(ns, p, c) ==
    IF ns = 0 /\ p = 0 /\ c = 0 THEN "no parameters specified"
    ELSE IF c # 0 /\ (p = 0 \/ ns = 0)
    THEN "container must be specified with both a pod and a namespace"
    ELSE IF p # 0 /\ ns = 0 THEN "pod must be specified with a namespace"
    ELSE "nil"

\* the variables of retrieveLogs other than mainPc
retrievalState == <<cfgVars, pods, podIdx, result, wg, logChan, errorChan, l1,
                    l2, closerPc, consumerPc, totalLogs, reported,
                    errClosedSeen, panicked, calls>>

\* zap.NewProduction() succeeds
RunLoggerOk ==
    /\ runPc = "logger"
    /\ runPc' = "validate"
    /\ UNCHANGED <<retrievalVars, storeVars, clientVars, analysisVars, args,
                   runErr, logStore, gi>>

\* zap.NewProduction() fails: return the error
RunLoggerErr ==
    /\ runPc = "logger"
    /\ runPc' = "done"
    /\ runErr' = "failed to initialize logger"
    /\ UNCHANGED <<retrievalVars, storeVars, clientVars, analysisVars, args,
                   logStore, gi>>

\* if err := validateInputCombinations(namespace, pod, container); err != nil
RunValidate ==
    /\ runPc = "validate"
    /\ LET err == ValidateInputCombinations(namespace, pod, container)
       IN  IF err = "nil"
           THEN runPc' = "NewLogStorage" /\ UNCHANGED runErr
           ELSE runPc' = "done" /\ runErr' = err
    /\ UNCHANGED <<retrievalVars, storeVars, clientVars, analysisVars, args,
                   logStore, gi>>

\* logStore = storage.NewLogStorage()
RunNewLogStorage ==
    /\ runPc = "NewLogStorage"
    /\ logStore' = "created"
    /\ logs' = EmptySlice
    /\ runPc' = "createK8sClient"
    /\ UNCHANGED <<retrievalVars, heap, mu, clientVars, analysisVars, args,
                   runErr, gi>>

\* createK8sClient() succeeds
RunCreateClientOk ==
    /\ runPc = "createK8sClient"
    /\ runPc' = "retrieveLogs"
    /\ UNCHANGED <<retrievalVars, storeVars, clientVars, analysisVars, args,
                   runErr, logStore, gi>>

\* createK8sClient() fails: return the error
RunCreateClientErr ==
    /\ runPc = "createK8sClient"
    /\ runPc' = "done"
    /\ runErr' = "failed to create Kubernetes client"
    /\ UNCHANGED <<retrievalVars, storeVars, clientVars, analysisVars, args,
                   logStore, gi>>

\* retrieveLogs(client) is entered
RunRetrieveLogs ==
    /\ runPc = "retrieveLogs" /\ mainPc = "off"
    /\ mainPc' = "ListPods"
    /\ runPc' = "retrieving"
    /\ UNCHANGED <<retrievalState, storeVars, clientVars, analysisVars, args,
                   runErr, logStore, gi>>

\* retrieveLogs returned an error: return "log retrieval failed"
RunRetrieveErr ==
    /\ runPc = "retrieving" /\ mainPc = "done" /\ result = "err"
    /\ runPc' = "done"
    /\ runErr' = "log retrieval failed"
    /\ UNCHANGED <<retrievalVars, storeVars, clientVars, analysisVars, args,
                   logStore, gi>>

\* retrieveLogs returned nil: if printRaw ... else ...
RunAfterRetrieve ==
    /\ runPc = "retrieving" /\ mainPc = "done" /\ result = "nil"
    /\ runPc' = IF args.printRaw THEN "PrettyPrintLogs" ELSE "analyzeKubernetsLogs"
    /\ UNCHANGED <<retrievalVars, storeVars, clientVars, analysisVars, args,
                   runErr, logStore, gi>>

\* logStore.PrettyPrintLogs() ; return nil
RunPrettyPrint ==
    /\ runPc = "PrettyPrintLogs"
    /\ RLockFree(mu)
    /\ runPc' = "done"
    /\ runErr' = "nil"
    /\ UNCHANGED <<retrievalVars, storeVars, clientVars, analysisVars, args,
                   logStore, gi>>

\* analyzeKubernetsLogs returned: its error wrapped, or nil after printing
\* the insights; a panic in GenerateInsights ends the process instead
RunAnalysisDone ==
    /\ runPc = "analyzeKubernetsLogs" /\ laPc \in {"insights", "failed"}
    /\ IF gi.pc = "panicked"
       THEN runPc' = "crashed" /\ UNCHANGED runErr
       ELSE /\ runPc' = "done"
            /\ runErr' = IF gi.err = "nil" THEN "nil" ELSE "log analysis failed"
    /\ UNCHANGED <<retrievalVars, storeVars, clientVars, analysisVars, args,
                   logStore, gi>>

\* a command line: each of the three flags given or not, --print-raw or not;
\* the cluster has one pod with two containers
RunInit ==
    /\ args \in [namespace : 0..1, pod : 0..1, container : 0..1,
                 printRaw : BOOLEAN]
    /\ namespace = FlagValue(args.namespace)
    /\ pod = FlagValue(args.pod)
    /\ container = FlagValue(args.container)
    /\ clusterPods = 1 /\ clusterContainers = 2 /\ streamLines = 0
    /\ streams = ExampleStreams
    /\ mainPc = "off"
    /\ pods = <<>>
    /\ podIdx = 1
    /\ result = "none"
    /\ wg = 0
    /\ logChan = NewChan
    /\ errorChan = NewChan
    /\ logChanCap = LogChanCap
    /\ errorChanCap = ErrorChanCap
    /\ l1 = [p \in PodIds |-> IdleL1]
    /\ l2 = [p \in PodIds |-> [c \in ContainerIds |-> IdleL2]]
    /\ closerPc = "idle"
    /\ consumerPc = "idle"
    /\ totalLogs = 0
    /\ reported = <<>>
    /\ errClosedSeen = FALSE
    /\ panicked = FALSE
    /\ calls = NoCalls
    /\ StoreInit
    /\ ClientInit
    /\ AnalyzerInit
    /\ runPc = "logger"
    /\ runErr = "none"
    /\ logStore = "nil"
    /\ gi = NoInsights

RunNext ==
    \/ RunLoggerOk
    \/ RunLoggerErr
    \/ RunValidate
    \/ RunNewLogStorage
    \/ RunCreateClientOk
    \/ RunCreateClientErr
    \/ RunRetrieveLogs
    \/ RunRetrieveErr
    \/ RunAfterRetrieve
    \/ RunPrettyPrint
    \/ RunAnalysisDone
    \/ Next
    \/ AnalysisNext

RunSpec == RunInit /\ [][RunNext]_vars

\* ------------------------------- retrieveLogs with channels of any capacity
\* make(chan T, n) with n = 0: a send on an unbuffered channel completes
\* together with the receive that takes the value.  The three sends of
\* retrieveLogs, each handing its value to the consumer's select.

\* logChan <- log meets  case log, ok := <-logChan
HandOffLog(p, c) ==
    /\ ~panicked /\ logChanCap = 0 /\ ~logChan.closed
    /\ l2[p][c].pc = "send" /\ consumerPc = "select"
    /\ l2' = [l2 EXCEPT ![p][c].idx = @ + 1,
                        ![p][c].pc = IF l2[p][c].idx = Len(l2[p][c].logs)
                                     THEN "exit" ELSE "send"]
    /\ heap' = AppendHeap(heap, logs, l2[p][c].logs[l2[p][c].idx])
    /\ logs' = AppendSlice(heap, logs)
    /\ totalLogs' = totalLogs + 1
    /\ UNCHANGED <<cfgVars, mainPc, pods, podIdx, result, wg, logChan,
                   errorChan, l1, closerPc, consumerPc, reported,
                   errClosedSeen, panicked, calls, mu, clientVars,
                   analysisVars, runVars>>

\* errorChan <- "failed to list containers" meets  case err, ok := <-errorChan
HandOffListErr(p) ==
    /\ ~panicked /\ errorChanCap = 0 /\ ~errorChan.closed
    /\ l1[p].pc = "senderr" /\ consumerPc = "select"
    /\ l1' = [l1 EXCEPT ![p].pc = "exit"]
    /\ reported' = Append(reported, ListErr(p))
    /\ consumerPc' = AfterRecvErr
    /\ UNCHANGED <<cfgVars, mainPc, pods, podIdx, result, wg, logChan,
                   errorChan, l2, closerPc, totalLogs, errClosedSeen,
                   panicked, calls, storeVars, clientVars, analysisVars,
                   runVars>>

\* errorChan <- "failed to retrieve logs" meets  case err, ok := <-errorChan
HandOffFetchErr(p, c) ==
    /\ ~panicked /\ errorChanCap = 0 /\ ~errorChan.closed
    /\ l2[p][c].pc = "senderr" /\ consumerPc = "select"
    /\ l2' = [l2 EXCEPT ![p][c].pc = "exit"]
    /\ reported' = Append(reported, FetchErr(p, c))
    /\ consumerPc' = AfterRecvErr
    /\ UNCHANGED <<cfgVars, mainPc, pods, podIdx, result, wg, logChan,
                   errorChan, l1, closerPc, totalLogs, errClosedSeen,
                   panicked, calls, storeVars, clientVars, analysisVars,
                   runVars>>

\* Capacities tried for <<logChan, errorChan>> in the short runs: both
\* unbuffered, and both with one slot, which the messages of a short run
\* fill as 101 lines fill the 100 slots the program is built with.
ChanCaps == {<<0, 0>>, <<1, 1>>}

\* a short run over at most MaxLiveTasks (pod, container) pairs and
\* MaxLiveEntries lines in all, with channels of each capacity of ChanCaps,
\* or the long run of one container with the capacities the program is
\* built with
LiveInit ==
    /\ namespace = 1
    /\ pod \in 0..1
    /\ container \in 0..1
    /\ container # 0 => pod # 0
    /\ \/ /\ \E caps \in ChanCaps :
                logChanCap = caps[1] /\ errorChanCap = caps[2]
          /\ clusterPods \in 0..MaxPods
          /\ clusterContainers \in 0..MaxContainers
          /\ streamLines \in 0..MaxLines
          /\ pod # 0 => clusterPods = 1
          /\ container # 0 => clusterContainers = 1
          /\ clusterPods * clusterContainers <= MaxLiveTasks
          /\ clusterPods * clusterContainers * streamLines <= MaxLiveEntries
       \/ /\ pod = 0 /\ container = 0
          /\ clusterPods = 1 /\ clusterContainers = 1
          /\ streamLines = LongLines
          /\ logChanCap = LogChanCap /\ errorChanCap = ErrorChanCap
    /\ streams = UniformStreams(streamLines)
    /\ mainPc = "ListPods"
    /\ pods = <<>>
    /\ podIdx = 1
    /\ result = "none"
    /\ wg = 0
    /\ logChan = NewChan
    /\ errorChan = NewChan
    /\ l1 = [p \in PodIds |-> IdleL1]
    /\ l2 = [p \in PodIds |-> [c \in ContainerIds |-> IdleL2]]
    /\ closerPc = "idle"
    /\ consumerPc = "idle"
    /\ totalLogs = 0
    /\ reported = <<>>
    /\ errClosedSeen = FALSE
    /\ panicked = FALSE
    /\ calls = NoCalls
    /\ StoreInit
    /\ ClientInit
    /\ AnalyzerInit
    /\ RunOff

LiveNext ==
    \/ Next
    \/ \E p \in PodIds, c \in ContainerIds : HandOffLog(p, c)
    \/ \E p \in PodIds : HandOffListErr(p)
    \/ \E p \in PodIds, c \in ContainerIds : HandOffFetchErr(p, c)

\* Every goroutine that can take a step eventually takes one (the Go
\* scheduler), every external call eventually returns, and a select with
\* several ready cases eventually takes each of them (it chooses at random).
LiveFairness ==
    /\ WF_vars(ListPodsOk \/ ListPodsErr)
    /\ WF_vars(UsePodFlag)
    /\ WF_vars(SpawnPod)
    /\ WF_vars(GoCloser)
    /\ WF_vars(GoConsumer)
    /\ WF_vars(MainReturn)
    /\ \A p \in PodIds :
          /\ WF_vars(L1UseContainerFlag(p))
          /\ WF_vars(L1ListOk(p) \/ L1ListErr(p))
          /\ WF_vars(L1SendErr(p) \/ HandOffListErr(p))
          /\ WF_vars(L1Spawn(p))
          /\ WF_vars(L1Done(p))
    /\ \A p \in PodIds, c \in ContainerIds :
          /\ WF_vars(L2FetchOk(p, c) \/ L2FetchErr(p, c))
          /\ WF_vars(L2SendErr(p, c) \/ HandOffFetchErr(p, c))
          /\ WF_vars(L2Send(p, c) \/ HandOffLog(p, c))
          /\ WF_vars(L2Done(p, c))
    /\ WF_vars(CloserWait)
    /\ WF_vars(CloseLogChan)
    /\ WF_vars(CloseErrorChan)
    /\ WF_vars(ConsumerRecvLog)
    /\ WF_vars(ConsumerLogClosed)
    /\ WF_vars(ConsumerRecvErr)

LiveSpec == LiveInit /\ [][LiveNext]_vars /\ LiveFairness


\* ================================================================ claims
Range(s) == {s[i] : i \in 1..Len(s)}
Count(s, e) == Cardinality({i \in 1..Len(s) : s[i] = e})
FromContainer(s, p, c) ==
    SelectSeq(s, LAMBDA e : e.PodName = p /\ e.Container = c)

\* K, M, L of a run
NumPods == Len(pods)
NumContainers == IF container # 0 THEN 1 ELSE clusterContainers
ResolvedContainers == IF container # 0 THEN {container} ELSE 1..clusterContainers

\* line i of container c of pod p as the store should hold it
ExpectedEntry(p, c, i) ==
    [Namespace |-> namespace, PodName |-> p, Container |-> c,
     LogContent |-> <<p, c, i>>, Timestamp |-> "now"]

ListFailed == {p \in PodIds : l1[p].list = "err"}
FetchFailed == {pc \in PodIds \X ContainerIds : l2[pc[1]][pc[2]].fetch = "err"}
FetchedOk == {pc \in PodIds \X ContainerIds : l2[pc[1]][pc[2]].fetch = "ok"}

ActiveL1 == {p \in PodIds : l1[p].pc \notin {"idle", "done"}}
ActiveL2 == {pc \in PodIds \X ContainerIds :
                l2[pc[1]][pc[2]].pc \notin {"idle", "done"}}
DoneL1 == {p \in PodIds : l1[p].pc = "done"}
DoneL2 == {pc \in PodIds \X ContainerIds : l2[pc[1]][pc[2]].pc = "done"}

\* every level-1 task of a resolved pod and every level-2 task of a resolved
\* container has been spawned and has finished
AllProducersFinished ==
    /\ mainPc \notin {"ListPods", "spawn"}
    /\ \A p \in Range(pods) :
          /\ l1[p].pc = "done"
          /\ \A c \in Range(l1[p].containers) : l2[p][c].pc = "done"

ReturnedNil == mainPc = "done" /\ result = "nil"

\* C1: when no call fails and retrieveLogs has returned nil, all K level-1
\* tasks and all K*M level-2 tasks have finished and the store holds exactly
\* K*M*L entries, every line of every container exactly once (also in the
\* run whose K*M*L exceeds the capacity of the log channel).
C1_AllLinesStoredOnReturn ==
    (ReturnedNil /\ NumFailures = 0) =>
        /\ AllProducersFinished
        /\ Cardinality(DoneL1) = NumPods
        /\ Cardinality(DoneL2) = NumPods * NumContainers
        /\ Len(StoreSeq) = NumPods * NumContainers * streamLines
        /\ totalLogs = NumPods * NumContainers * streamLines
        /\ \A p \in Range(pods), c \in ResolvedContainers, i \in 1..streamLines :
              Count(StoreSeq, ExpectedEntry(p, c, i)) = 1

\* a run with more lines than the log channel holds has returned with all of
\* them stored
C1_Witness ==
    /\ ReturnedNil /\ NumFailures = 0
    /\ NumPods * NumContainers * streamLines > logChanCap
    /\ Len(StoreSeq) = NumPods * NumContainers * streamLines

\* C2: once retrieveLogs has returned nil, every error a task sent on the
\* error channel has been delivered to the error sink exactly once; with
\* exactly one failed fetch, exactly one error has been reported.
C2_EveryErrorReportedOnReturn ==
    ReturnedNil =>
        /\ \A p \in ListFailed : Count(reported, ListErr(p)) = 1
        /\ \A pc \in FetchFailed : Count(reported, FetchErr(pc[1], pc[2])) = 1
        /\ Len(reported) = NumFailures

\* C3: when retrieveLogs has returned nil, both channels are closed and
\* empty: the consumer stopped only after draining both to closure.
C3_BothChannelsDrainedOnReturn ==
    ReturnedNil =>
        /\ logChan.closed /\ logChan.buf = <<>>
        /\ errorChan.closed /\ errorChan.buf = <<>>

C5_OneFetchFailureIsolated ==
    (ReturnedNil /\ Cardinality(FetchFailed) = 1 /\ ListFailed = {}) =>
        /\ Len(StoreSeq) = (NumPods * NumContainers - 1) * streamLines
        /\ \A pc \in FetchFailed :
              FromContainer(StoreSeq, pc[1], pc[2]) = <<>>
        /\ \A p \in Range(pods), c \in ResolvedContainers, i \in 1..streamLines :
              <<p, c>> \notin FetchFailed =>
                  Count(StoreSeq, ExpectedEntry(p, c, i)) = 1

\* one of four fetches failed and the other three containers' lines are stored
C5_Witness ==
    /\ ReturnedNil /\ Cardinality(FetchFailed) = 1 /\ ListFailed = {}
    /\ NumPods * NumContainers = 4 /\ streamLines = 1
    /\ Len(StoreSeq) = 3

\* C6: when pod listing failed, retrieveLogs returned an error and did
\* nothing else: no task, closer or consumer was started, no container
\* listing or log fetch was issued, both channels and the store are empty;
\* and no other failure makes retrieveLogs return an error.
C6_ListPodsFailureIsFatal ==
    /\ result = "err" =>
          /\ mainPc = "done" /\ pod = 0 /\ calls.ListPods = 1
          /\ pods = <<>> /\ wg = 0
          /\ \A p \in PodIds : l1[p] = IdleL1 /\ calls.ListContainers[p] = 0
          /\ \A p \in PodIds, c \in ContainerIds :
                l2[p][c] = IdleL2 /\ calls.RetrievePodLogs[p][c] = 0
          /\ closerPc = "idle" /\ consumerPc = "idle"
          /\ logChan = NewChan /\ errorChan = NewChan
          /\ reported = <<>> /\ totalLogs = 0
          /\ StoreSeq = <<>> /\ logs = EmptySlice
    /\ NumFailures > 0 => result # "err"

\* pod listing failed in a namespace that has pods
C6_Witness ==
    /\ result = "err" /\ mainPc = "done"
    /\ clusterPods = 2 /\ clusterContainers = 2 /\ streamLines = 1

\* C7: when container listing failed for pod p, no log fetch is ever issued
\* for p and retrieveLogs does not return an error; once it has returned
\* nil the store holds no entry of p and every line of every successfully
\* fetched container of the other pods exactly once.
C7_ListContainersFailureIsolated ==
    \A p \in ListFailed :
        /\ container = 0
        /\ \A c \in ContainerIds :
              l2[p][c] = IdleL2 /\ calls.RetrievePodLogs[p][c] = 0
        /\ result # "err"
        /\ ReturnedNil =>
              /\ \A i \in 1..Len(StoreSeq) : StoreSeq[i].PodName # p
              /\ \A pc \in FetchedOk, i \in 1..streamLines :
                    Count(StoreSeq, ExpectedEntry(pc[1], pc[2], i)) = 1

\* listing failed for one of two pods; the other pod's two containers are stored
C7_Witness ==
    /\ ReturnedNil /\ NumPods = 2
    /\ Cardinality(ListFailed) = 1 /\ Cardinality(FetchedOk) = 2
    /\ streamLines >= 1
    /\ Len(StoreSeq) = 2 * streamLines

\* C8: once retrieveLogs has returned nil, for every successfully fetched
\* (pod, container) the stored entries of that identity are exactly that
\* container's non-empty lines in stream order, and every stored entry
\* carries the run's namespace and non-empty content.
C8_StoreIsInterleavingOfStreams ==
    ReturnedNil =>
        /\ \A pc \in FetchedOk :
              FromContainer(StoreSeq, pc[1], pc[2])
                = [i \in 1..streamLines |-> ExpectedEntry(pc[1], pc[2], i)]
        /\ \A i \in 1..Len(StoreSeq) :
              /\ StoreSeq[i].Namespace = namespace
              /\ StoreSeq[i].LogContent # <<>>
              /\ <<StoreSeq[i].PodName, StoreSeq[i].Container>> \in FetchedOk

\* two containers' two-line streams are stored interleaved
C8_Witness ==
    /\ ReturnedNil /\ streamLines = 2 /\ Len(StoreSeq) = 4
    /\ StoreSeq[1].Container # StoreSeq[2].Container
    /\ StoreSeq[1].Container = StoreSeq[3].Container
    /\ StoreSeq[2].Container = StoreSeq[4].Container

\* a caller is inside AddLog or Clear
Writing(c) == cl[c].pc \in {"AddLog.load", "AddLog.store", "AddLog.Unlock",
                            "Clear.store", "Clear.Unlock"}
Reading(c) == cl[c].pc \in {"GetLogs.read", "GetLogs.RUnlock",
                            "Print.range", "Print.RUnlock"}

\* caller c executes the read of GetLogs in this step
ReadsNow(c) == cl[c].pc = "GetLogs.read" /\ cl'[c].pc = "GetLogs.RUnlock"

\* C9: a GetLogs that reads while no AddLog or Clear call is in progress
\* returns exactly the entries of the AddLog calls completed since the last
\* completed Clear, each once and in completion order, so the most recent
\* AddLog's entry is last and the result is empty right after a Clear.
C9_GetLogsAfterCompletedCalls ==
    [][\A c \in ClientIds :
          (ReadsNow(c) /\ \A d \in ClientIds : ~Writing(d)) =>
              /\ cl'[c].got = abs
              /\ Len(cl'[c].got) = Len(abs)
              /\ \A i \in 1..Len(abs) : Count(cl'[c].got, abs[i]) = 1]_vars

\* two AddLog calls by different callers have completed and a GetLogs
\* has returned both entries
C9_Witness ==
    \E c \in ClientIds :
        /\ cl[c].pc = "GetLogs.RUnlock"
        /\ Len(cl[c].got) = 2
        /\ \A d \in ClientIds : ~Writing(d)

\* C10: at most one caller is inside AddLog or Clear, and then no caller
\* is inside GetLogs; every GetLogs result is the sequence that the calls
\* completed at the instant of its read amount to, never the state of a
\* call that is still in progress.
C10_GetLogsSeesAtomicState ==
    /\ Cardinality({c \in ClientIds : Writing(c)}) <= 1
    /\ (\E c \in ClientIds : Writing(c)) => \A d \in ClientIds : ~Reading(d)
    /\ mu.w = Cardinality({c \in ClientIds : Writing(c)})
    /\ mu.r = Cardinality({c \in ClientIds : Reading(c)})
    /\ \A c \in ClientIds : cl[c].got = cl[c].at

\* two readers hold the read lock together and see the same non-empty store
C10_Witness ==
    \E c, d \in ClientIds :
        /\ c # d
        /\ cl[c].pc = "GetLogs.RUnlock" /\ cl[d].pc = "GetLogs.RUnlock"
        /\ cl[c].got # <<>> /\ cl[c].got = cl[d].got

\* C11: the sequence a caller got from GetLogs stays as it was: the slice
\* header the caller holds still denotes the entries it denoted at the read,
\* same length and same entry at every position, whatever AddLog and Clear
\* calls came later (the array is shared with the store, not copied).
C11_ReturnedSliceIsStable ==
    \A c \in ClientIds :
        /\ Len(Elems(heap, cl[c].ret)) = Len(cl[c].got)
        /\ \A i \in 1..Len(cl[c].got) : Elems(heap, cl[c].ret)[i] = cl[c].got[i]

\* a caller holds a slice of the array the store has since appended to in place
C11_Witness ==
    \E c \in ClientIds :
        /\ cl[c].pc = "idle" /\ cl[c].ret.len > 0
        /\ logs.arr = cl[c].ret.arr
        /\ logs.len > cl[c].ret.len
        /\ mu.w = 0

\* C12: every step leaves the store's sequence as it is, appends exactly one
\* entry at its end, or replaces it by the empty sequence; and a step of
\* GetLogs or PrettyPrintLogs changes neither ls.logs nor any array.
C12_StoreOnlyAppendsOrClears ==
    [][/\ \/ StoreSeq' = StoreSeq
          \/ /\ Len(StoreSeq') = Len(StoreSeq) + 1
             /\ SubSeq(StoreSeq', 1, Len(StoreSeq)) = StoreSeq
          \/ StoreSeq' = <<>>
       /\ \A c \in ClientIds :
             (cl'[c] # cl[c] /\ (Reading(c) \/ Reading(c)'))
                 => (logs' = logs /\ heap' = heap)]_vars

\* two entries were appended and printed, and the store was then cleared
C12_Witness ==
    /\ \E c \in ClientIds : Len(cl[c].out) = 2
    /\ logs = EmptySlice /\ heap # <<>>
    /\ \A c \in ClientIds : cl[c].pc = "idle"

\* ------------------------------------------------------------- analyzer
\* processLogs is about to analyze, and then analyzes, la.logs[laIdx]
Analyzing == laPc = "processLogs" /\ laIdx <= Len(la.logs)
CurrentLog == la.logs[laIdx]
Matches(re) == MatchString(re, CurrentLog.LogContent)

\* the copy the restart rule is to list: "Restart Event: " + content
RestartCopy(e) == [e EXCEPT !.LogContent = <<"Restart", "Event:">> \o @]

\* an analyzed entry of the batch with the given content
Analyzed(text) ==
    \E i \in 1..Len(la.logs) : i < laIdx /\ la.logs[i].LogContent = text

\* C13: an entry matching the error pattern is handled by the error rule
\* alone, whatever else it matches: the error count rises by one, the entry
\* is appended unmodified to critical-events, and the warning count and
\* performance-issues stay as they were.
C13_ErrorRuleWins ==
    [][(Analyzing /\ laIdx' = laIdx + 1 /\ Matches(errorRegex)) =>
          /\ la'.errorCount = la.errorCount + 1
          /\ la'.criticalEvents = Append(la.criticalEvents, CurrentLog)
          /\ la'.warningCount = la.warningCount
          /\ la'.performanceIssues = la.performanceIssues]_vars

\* a line matching all four patterns has been analyzed as an error
C13_Witness ==
    /\ laPc = "ready"
    /\ Analyzed(<<"panic:", "critical", "warning", "slow", "pod">>)
    /\ Len(la.logs) = 1
    /\ la.errorCount = 1 /\ la.criticalEvents = la.logs
    /\ la.warningCount = 0 /\ la.performanceIssues = <<>>

\* how often entry i of the batch is listed, in either list
Listings(a, i) ==
    Count(a.criticalEvents, a.logs[i])
    + Count(a.criticalEvents, RestartCopy(a.logs[i]))
    + Count(a.performanceIssues, a.logs[i])
    + Count(a.performanceIssues, RestartCopy(a.logs[i]))

\* C14: each entry is decided once: analyzing an entry raises at most one of
\* the error count, the warning count and performance-issues, lists the
\* entry in at most one list and only together with the error count or with
\* no count, and no entry of the batch is ever listed twice.
C14_OneRulePerEntry ==
    [][(Analyzing /\ laIdx' = laIdx + 1) =>
          LET dErr == la'.errorCount - la.errorCount
              dWarn == la'.warningCount - la.warningCount
              dCrit == Len(la'.criticalEvents) - Len(la.criticalEvents)
              dPerf == Len(la'.performanceIssues) - Len(la.performanceIssues)
          IN  /\ {dErr, dWarn, dCrit, dPerf} \subseteq {0, 1}
              /\ dErr + dWarn + dPerf <= 1
              /\ dWarn + dCrit + dPerf <= 1
              /\ \A i \in 1..Len(la'.logs) : Listings(la', i) <= 1
              /\ \A i \in laIdx'..Len(la'.logs) : Listings(la', i) = 0]_vars

\* a batch of three has put entries in both lists and counted a warning
C14_Witness ==
    /\ laPc = "ready" /\ Len(la.logs) = 3
    /\ Len(la.criticalEvents) = 1 /\ Len(la.performanceIssues) = 1
    /\ la.warningCount = 1

\* C15: an entry matching only the restart pattern is listed exactly once
\* in critical-events, as a copy whose content is "Restart Event: " followed
\* by the original content; the counts and performance-issues are
\* unaffected, and the batch and the store keep the original entry.
C15_RestartCopyIsPrefixed ==
    [][(/\ Analyzing /\ laIdx' = laIdx + 1
        /\ Matches(restartRegex)
        /\ ~Matches(errorRegex) /\ ~Matches(warningRegex)
        /\ ~Matches(performanceRegex)) =>
          /\ la'.criticalEvents = Append(la.criticalEvents, RestartCopy(CurrentLog))
          /\ Count(la'.criticalEvents, RestartCopy(CurrentLog)) = 1
          /\ Count(la'.criticalEvents, CurrentLog) = 0
          /\ la'.errorCount = la.errorCount
          /\ la'.warningCount = la.warningCount
          /\ la'.performanceIssues = la.performanceIssues
          /\ la'.logs = la.logs
          /\ StoreSeq' = StoreSeq
          /\ StoreSeq'[laIdx] = CurrentLog]_vars

\* "pod restarted unexpectedly" was analyzed and listed with the prefix
C15_Witness ==
    /\ laPc = "ready" /\ Len(la.logs) = 1
    /\ la.logs[1].LogContent = <<"pod", "restarted", "unexpectedly">>
    /\ Len(la.criticalEvents) = 1
    /\ la.criticalEvents[1].LogContent =
          <<"Restart", "Event:", "pod", "restarted", "unexpectedly">>
    /\ la.criticalEvents[1].PodName = la.logs[1].PodName
    /\ StoreSeq = la.logs
    /\ la.errorCount = 0 /\ la.warningCount = 0

\* the word restart occurs in the text
MentionsRestart(text) == \E i \in 1..Len(text) : "restart" \in Fragments(text[i])

\* pod or container occurs in the text and restart occurs later
RestartPhrasing(text) ==
    \E i \in 1..Len(text) : \E j \in (i + 1)..Len(text) :
        /\ Fragments(text[i]) \cap {"pod", "container"} # {}
        /\ "restart" \in Fragments(text[j])

\* C16: the restart rule lists an entry only when pod or container is
\* followed by restart in its content, and an entry that does not mention
\* restart and matches none of the error, warning and performance patterns
\* leaves both counts and both lists unchanged.
C16_RestartRuleNeedsRestart ==
    [][(Analyzing /\ laIdx' = laIdx + 1) =>
          /\ (/\ Len(la'.criticalEvents) > Len(la.criticalEvents)
              /\ la'.errorCount = la.errorCount)
                => RestartPhrasing(CurrentLog.LogContent)
          /\ (/\ ~MentionsRestart(CurrentLog.LogContent)
              /\ ~Matches(errorRegex) /\ ~Matches(warningRegex)
              /\ ~Matches(performanceRegex))
                => la' = la]_vars

\* C17: an entry matching the warning pattern and not the error pattern
\* only raises the warning count by one, also when it matches the
\* performance or the restart pattern: neither list and not the error
\* count changes.
C17_WarningOnlyCounts ==
    [][(/\ Analyzing /\ laIdx' = laIdx + 1
        /\ Matches(warningRegex) /\ ~Matches(errorRegex)) =>
          /\ la'.warningCount = la.warningCount + 1
          /\ la'.errorCount = la.errorCount
          /\ la'.criticalEvents = la.criticalEvents
          /\ la'.performanceIssues = la.performanceIssues]_vars

\* warnings that also match the restart and the performance pattern were
\* analyzed and only counted
C17_Witness ==
    /\ laPc = "ready" /\ Len(la.logs) = 2
    /\ Analyzed(<<"container", "restart", "warning">>)
    /\ Analyzed(<<"slow", "warning">>)
    /\ la.warningCount = 2 /\ la.errorCount = 0
    /\ la.criticalEvents = <<>> /\ la.performanceIssues = <<>>

\* the positions of the batch an entry of a list can come from
Origins(e) ==
    {k \in 1..Len(la.logs) : e = la.logs[k] \/ e = RestartCopy(la.logs[k])}

\* the list holds entries of the batch in the order of the batch
OrderPreserving(list) ==
    /\ \A i \in 1..Len(list) : Origins(list[i]) # {}
    /\ \A i, j \in 1..Len(list) :
          i < j => \A a \in Origins(list[i]), b \in Origins(list[j]) : a < b

\* C18: critical-events and performance-issues are each a subsequence of
\* the batch in batch order, restart entries compared by their original
\* content.
C18_ListsPreserveOrder ==
    /\ OrderPreserving(la.criticalEvents)
    /\ OrderPreserving(la.performanceIssues)

\* an error, a restart copy and another error are listed in batch order
C18_Witness ==
    /\ laPc = "ready" /\ Len(la.criticalEvents) = 3
    /\ la.criticalEvents[1] = la.logs[1]
    /\ la.criticalEvents[2] = RestartCopy(la.logs[2])
    /\ la.criticalEvents[3] = la.logs[3]

\* the report line of an event: time, pod, container and content
ReportedEvent(line, e) ==
    /\ line.kind = "event"
    /\ line.event.Timestamp = e.Timestamp /\ line.event.PodName = e.PodName
    /\ line.event.Container = e.Container /\ line.event.LogContent = e.LogContent

\* lines from..(from + max(1, Len(list)) - 1) of the report r are the body
\* of a section: one line per event in list order, or the placeholder alone
SectionAt(r, from, list, placeholder) ==
    /\ \A i \in 1..Len(list) : ReportedEvent(r[from + i - 1], list[i])
    /\ list = <<>> => r[from].kind = placeholder

BodyLen(list) == IF list = <<>> THEN 1 ELSE Len(list)

\* C20: generateDetailedReport changes nothing of the analyzer or the store
\* and reports the size of the batch, the two counters, and per section one
\* line per event in list order, with the placeholder line exactly when the
\* list is empty; for an empty batch the total and both counts are 0 and
\* both placeholders appear.
C20_ReportReflectsState ==
    [][(laPc = "ready" /\ laPc' = "reported") =>
          LET r == report'
              nc == BodyLen(la.criticalEvents)
              np == BodyLen(la.performanceIssues)
              noCrit == "- No critical events detected."
              noPerf == "- No significant performance issues detected."
          IN  /\ la' = la /\ StoreSeq' = StoreSeq
              /\ Len(r) = 6 + nc + np
              /\ r[2].kind = "Total Log Entries" /\ r[2].n = Len(la.logs)
              /\ r[3].kind = "Error Count" /\ r[3].n = la.errorCount
              /\ r[4].kind = "Warning Count" /\ r[4].n = la.warningCount
              /\ r[5].kind = "#### Critical Events"
              /\ SectionAt(r, 6, la.criticalEvents, noCrit)
              /\ r[6 + nc].kind = "#### Performance Issues"
              /\ SectionAt(r, 7 + nc, la.performanceIssues, noPerf)
              /\ (\E k \in 1..Len(r) : r[k].kind = noCrit)
                    <=> la.criticalEvents = <<>>
              /\ (\E k \in 1..Len(r) : r[k].kind = noPerf)
                    <=> la.performanceIssues = <<>>
              /\ la.logs = <<>> =>
                    /\ r[2].n = 0 /\ r[3].n = 0 /\ r[4].n = 0
                    /\ r[6].kind = noCrit /\ r[8].kind = noPerf]_vars

\* a report with two critical events listed and the performance placeholder
C20_Witness ==
    /\ laPc = "reported"
    /\ Len(la.criticalEvents) = 2 /\ la.performanceIssues = <<>>
    /\ Len(report) = 9
    /\ report[6].event.LogContent = la.criticalEvents[1].LogContent
    /\ report[9].kind = "- No significant performance issues detected."

\* the entries the streams of the resolved pods and containers amount to
StreamEntries ==
    UNION {{LogEntry(namespace, pc[1], pc[2], streams[pc[1]][pc[2]][i]) :
               i \in {k \in 1..Len(streams[pc[1]][pc[2]]) :
                         streams[pc[1]][pc[2]][k] # <<>>}} :
           pc \in Range(pods) \X ResolvedContainers}

\* the rule an entry falls under
IsError(e) == MatchString(errorRegex, e.LogContent)
IsWarning(e) == ~IsError(e) /\ MatchString(warningRegex, e.LogContent)
IsPerformance(e) ==
    /\ ~IsError(e) /\ ~IsWarning(e)
    /\ MatchString(performanceRegex, e.LogContent)
IsRestart(e) ==
    /\ ~IsError(e) /\ ~IsWarning(e) /\ ~IsPerformance(e)
    /\ MatchString(restartRegex, e.LogContent)

ExpectedCritical ==
    {e \in StreamEntries : IsError(e)}
    \cup {RestartCopy(e) : e \in {x \in StreamEntries : IsRestart(x)}}
ExpectedPerformance == {e \in StreamEntries : IsPerformance(e)}

\* C19: with every call succeeding, the store size, the two counts and the
\* entries of the two lists after analysis are fixed by the streams alone,
\* whatever the interleaving of the producers; for the example streams the
\* store holds 3 entries, there is 1 error and 1 warning, critical-events
\* is the single error line of c1 and performance-issues is empty.
C19_ResultIndependentOfInterleaving ==
    (laPc \in {"ready", "reported"} /\ NumFailures = 0) =>
        /\ Len(StoreSeq) = Cardinality(StreamEntries)
        /\ Len(la.logs) = Cardinality(StreamEntries)
        /\ la.errorCount = Cardinality({e \in StreamEntries : IsError(e)})
        /\ la.warningCount = Cardinality({e \in StreamEntries : IsWarning(e)})
        /\ Range(la.criticalEvents) = ExpectedCritical
        /\ Len(la.criticalEvents) = Cardinality(ExpectedCritical)
        /\ Range(la.performanceIssues) = ExpectedPerformance
        /\ Len(la.performanceIssues) = Cardinality(ExpectedPerformance)
        /\ (streams = ExampleStreams /\ container = 0) =>
              /\ Len(StoreSeq) = 3
              /\ la.errorCount = 1 /\ la.warningCount = 1
              /\ la.criticalEvents =
                    <<LogEntry(1, 1, 1, <<"ERROR", "timeout", "reaching", "db">>)>>
              /\ la.performanceIssues = <<>>

\* the example analyzed after c2's line was stored between c1's two lines
C19_Witness ==
    /\ laPc = "ready" /\ NumFailures = 0
    /\ streams = ExampleStreams /\ container = 0
    /\ Len(StoreSeq) = 3
    /\ StoreSeq[2] = LogEntry(1, 1, 2, <<"WARN", "disk", "nearly", "full">>)
    /\ la.errorCount = 1 /\ la.warningCount = 1

\* the entries of a list that carry the prefix of the restart rule
Prefixed(list) ==
    {k \in 1..Len(list) :
        /\ Len(list[k].LogContent) >= 2
        /\ SubSeq(list[k].LogContent, 1, 2) = <<"Restart", "Event:">>}

\* the entries of the batch that match none of the four patterns
Unmatched ==
    {i \in 1..Len(la.logs) :
        /\ ~MatchString(errorRegex, la.logs[i].LogContent)
        /\ ~MatchString(warningRegex, la.logs[i].LogContent)
        /\ ~MatchString(performanceRegex, la.logs[i].LogContent)
        /\ ~MatchString(restartRegex, la.logs[i].LogContent)}

\* C27: once NewLogAnalyzer has processed the batch, the error count is the
\* number of critical-events entries without the restart prefix, the length
\* of critical-events is the error count plus the restart-rule entries, and
\* error count + warning count + performance-issues + restart-rule entries
\* falls short of the batch size by exactly the entries matching no pattern.
C27_CountersAndListsAgree ==
    laPc \in {"ready", "reported"} =>
        LET restarts == Cardinality(Prefixed(la.criticalEvents))
        IN  /\ la.errorCount = Len(la.criticalEvents) - restarts
            /\ Len(la.criticalEvents) = la.errorCount + restarts
            /\ Prefixed(la.performanceIssues) = {}
            /\ la.errorCount + la.warningCount + Len(la.performanceIssues)
                  + restarts <= Len(la.logs)
            /\ Len(la.logs) - (la.errorCount + la.warningCount
                  + Len(la.performanceIssues) + restarts)
                  = Cardinality(Unmatched)

\* a batch with an error, a restart entry and an entry matching nothing
C27_Witness ==
    /\ laPc = "ready" /\ Len(la.logs) = 3
    /\ la.errorCount = 1 /\ Len(la.criticalEvents) = 2
    /\ Cardinality(Prefixed(la.criticalEvents)) = 1
    /\ Cardinality(Unmatched) = 1

\* the (pod, container) pairs a level-2 task was started for
Spawned == {pc \in PodIds \X ContainerIds : l2[pc[1]][pc[2]].pc # "idle"}

\* C26: pod listing is issued at most once and not at all with a pod filter,
\* container listing at most once per pod, only for resolved pods and not at
\* all with a container filter, and the log fetch at most once per pair,
\* failed or not; when retrieveLogs has returned nil every resolved pod has
\* had its one level-1 task, every resolved pair its one level-2 task and
\* its one fetch, and nothing was fetched for any other pair.
C26_EachCallIssuedOnce ==
    /\ calls.ListPods <= 1
    /\ pod # 0 => calls.ListPods = 0
    /\ \A p \in PodIds :
          /\ calls.ListContainers[p] <= 1
          /\ container # 0 => calls.ListContainers[p] = 0
          /\ calls.ListContainers[p] = 1 => p \in Range(pods)
          /\ \A c \in ContainerIds :
                /\ calls.RetrievePodLogs[p][c] <= 1
                /\ calls.RetrievePodLogs[p][c] = 1 => <<p, c>> \in Spawned
                /\ <<p, c>> \in FetchFailed => calls.RetrievePodLogs[p][c] = 1
    /\ ReturnedNil =>
          /\ pod = 0 => calls.ListPods = 1
          /\ \A p \in PodIds :
                /\ p \in Range(pods) <=> l1[p].pc = "done"
                /\ p \in Range(pods) /\ container = 0 => calls.ListContainers[p] = 1
                /\ p \notin Range(pods) => calls.ListContainers[p] = 0
                /\ \A c \in ContainerIds :
                      LET resolved == /\ p \in Range(pods) /\ p \notin ListFailed
                                      /\ c \in ResolvedContainers
                      IN  /\ resolved <=> l2[p][c].pc = "done"
                          /\ calls.RetrievePodLogs[p][c] = IF resolved THEN 1 ELSE 0

\* a run of two pods with two containers each returned after one failed
\* fetch, with four fetches issued in all
C26_Witness ==
    /\ ReturnedNil /\ Cardinality(FetchFailed) = 1
    /\ NumPods * NumContainers = 4
    /\ \A pc \in PodIds \X ContainerIds : calls.RetrievePodLogs[pc[1]][pc[2]] = 1
    /\ calls.ListPods = 1

\* the response holds a text GenerateInsights can return
HasContent(resp) ==
    /\ ~resp.fails /\ Len(resp.choices) > 0
    /\ resp.choices[1].message /\ resp.choices[1].content
    /\ resp.choices[1].text # ""

\* C22: once the collaborator has answered, GenerateInsights has returned;
\* it returned an error whenever the call failed or the response carries no
\* or empty content, and a successful return carries the non-empty text of
\* the response unchanged.
C22_InsightsErrorOnEmptyContent ==
    gi.pc # "idle" =>
        /\ gi.pc = "returned"
        /\ ~HasContent(gi.resp) => gi.err \notin {"nil", "none"}
        /\ gi.err = "nil" => (gi.out # "" /\ gi.out = gi.resp.choices[1].text)

\* the errors of validateInputCombinations
ValidationErrors ==
    {"no parameters specified",
     "container must be specified with both a pod and a namespace",
     "pod must be specified with a namespace"}

\* RunE is past input validation without having returned before or in it
Validated ==
    /\ runPc \notin {"logger", "validate"}
    /\ runErr \notin ValidationErrors \cup {"failed to initialize logger"}

\* no cluster call has been issued
NoClusterCall == calls = NoCalls

\* C21: validation passes exactly when the namespace is non-empty and the
\* container is empty or the pod non-empty; otherwise RunE returns a
\* validation error with the log store not created and no cluster call
\* issued; retrieval is never under way with an empty namespace.
C21_ValidationGuardsRetrieval ==
    LET valid == namespace # 0 /\ (container = 0 \/ pod # 0)
    IN  /\ ValidateInputCombinations(namespace, pod, container) = "nil" <=> valid
        /\ Validated => valid
        /\ (runPc \notin {"logger", "validate"} /\ ~valid) =>
              /\ runPc = "done"
              /\ runErr \in ValidationErrors \cup {"failed to initialize logger"}
              /\ logStore = "nil" /\ NoClusterCall /\ mainPc = "off"
        /\ runErr \in ValidationErrors => (logStore = "nil" /\ NoClusterCall)
        /\ (mainPc # "off" \/ ~NoClusterCall) => namespace # 0

\* a container given without a pod was rejected before anything was created
C21_Witness ==
    /\ runPc = "done"
    /\ namespace # 0 /\ container # 0 /\ pod = 0
    /\ runErr = "container must be specified with both a pod and a namespace"
    /\ logStore = "nil" /\ NoClusterCall

\* the namespace the README names as the default of --namespace
DefaultNamespace == 1

\* C23: a run given none of --namespace, --pod and --container passes input
\* validation and queries the namespace named default.
C23_NamespaceDefaultsToDefault ==
    (args.namespace = 0 /\ args.pod = 0 /\ args.container = 0) =>
        /\ namespace = DefaultNamespace
        /\ runPc \notin {"logger", "validate"} =>
              runErr \notin ValidationErrors

\* C24: under fair scheduling every run reaches a state in which
\* retrieveLogs has returned, nothing has panicked, every task that was
\* started has finished (none stays blocked on a send) and, when the return
\* is nil, the closer has closed both channels and the consumer has left
\* its loop; whatever the capacities, the numbers of pods, containers and
\* lines and the failures.
C24_RetrieveLogsTerminates ==
    <>(/\ mainPc = "done" /\ ~panicked
       /\ \A p \in PodIds : l1[p].pc \in {"idle", "done"}
       /\ \A p \in PodIds, c \in ContainerIds : l2[p][c].pc \in {"idle", "done"}
       /\ result = "nil" =>
             /\ closerPc = "done" /\ logChan.closed /\ errorChan.closed
             /\ consumerPc = "done")

\* a producer waits at the full log channel of the built-in capacity
C24_Witness ==
    /\ logChanCap = LogChanCap /\ Len(logChan.buf) = LogChanCap
    /\ \E p \in PodIds, c \in ContainerIds : l2[p][c].pc = "send"
    /\ consumerPc = "select"

\* C25: the outcome of a run that returned nil is the one unbuffered
\* channels give, for every capacity of the two channels: every line of every
\* fetched container stored once and nothing else, and every error of a
\* failed call reported once and nothing else.
C25_OutcomeIndependentOfCapacity ==
    ReturnedNil =>
        /\ \A pc \in FetchedOk, i \in 1..streamLines :
              Count(StoreSeq, ExpectedEntry(pc[1], pc[2], i)) = 1
        /\ Len(StoreSeq) = Cardinality(FetchedOk) * streamLines
        /\ \A p \in ListFailed : Count(reported, ListErr(p)) = 1
        /\ \A pc \in FetchFailed : Count(reported, FetchErr(pc[1], pc[2])) = 1
        /\ Len(reported) = Cardinality(ListFailed) + Cardinality(FetchFailed)

====
